---------------------------- MODULE Spec2Model ----------------------------
(***************************************************************************)
(* Analytics core of the meallog server (src/server/src/analytics):        *)
(* the DailySummary / UserProgress tables, the request handlers of         *)
(* AnalyticsService that read and write them through a request-scoped      *)
(* SQLAlchemy session, and the score calculators.                          *)
(*                                                                         *)
(* Python floats are modelled as exact rationals <<num, den>> (den > 0,    *)
(* lowest terms); every float the calculators produce from the bounded     *)
(* inputs is exactly such a rational up to the final division by 3.        *)
(* Optional values (None | v) are modelled as <<>> | <<v>>.                *)
(***************************************************************************)
EXTENDS Integers, Sequences, FiniteSets, TLC

\* ------------------------------------------------------------------ bounds
MaxMeals == 4
MaxMacro == 1
MaxPosts == 3
MaxLikes == 7
MaxComments == 4
MaxOps == 2
NumUsers == 2
NumDates == 2

Users == 1..NumUsers
Dates == 1..NumDates
\* The request slots: two concurrent HTTP requests, each with its own session.
Req == {"a", "b"}

\* --------------------------------------------------------------- rationals
RECURSIVE Gcd(_, _)
Gcd(a, b) == IF b = 0 THEN a ELSE Gcd(b, a % b)

Abs(x) == IF x < 0 THEN -x ELSE x

\* n / d in lowest terms, d > 0
Rat(n, d) ==
    LET g == Gcd(Abs(n), Abs(d))
        s == IF d < 0 THEN -1 ELSE 1
    IN  <<(s * n) \div g, (s * d) \div g>>

RatInt(n) == <<n, 1>>
RatAdd(x, y) == Rat(x[1] * y[2] + y[1] * x[2], x[2] * y[2])
RatSub(x, y) == Rat(x[1] * y[2] - y[1] * x[2], x[2] * y[2])
RatMul(x, y) == Rat(x[1] * y[1], x[2] * y[2])
\* x / k for an integer k # 0
RatDivInt(x, k) == Rat(x[1], x[2] * k)
RatLe(x, y) == x[1] * y[2] <= y[1] * x[2]
RatMin(x, y) == IF RatLe(x, y) THEN x ELSE y
IntMin(a, b) == IF a <= b THEN a ELSE b

\* Python's sum() over booleans: True counts 1, False 0
BoolInt(b) == IF b THEN 1 ELSE 0

\* ------------------------------------------------------- binary64 floats
\* Where a comparison depends on the rounding of a quotient (the insight
\* generator's `improvement >= 5`), a Python float is modelled as the IEEE-754
\* double it is: a sign and a fixed-point bit string, most significant bit
\* first, IntBits bits before the binary point and FracBits after it, of which
\* at most Mantissa consecutive bits are significant.  The format holds every
\* double of magnitude in [2^-3, 2^IntBits) and 0.
Mantissa == 53
IntBits == 10
FracBits == 55
FloatWidth == IntBits + FracBits

RECURSIVE Pow2(_)
Pow2(k) == IF k = 0 THEN 1 ELSE 2 * Pow2(k - 1)

\* the IntBits-bit binary numeral of n, 0 <= n < 2^IntBits
IntToBits(n) == [i \in 1..IntBits |-> (n \div Pow2(IntBits - i)) % 2]

\* the first `count` bits of rem / d after the binary point, 0 <= rem < d
RECURSIVE QuotientBits(_, _, _)
QuotientBits(rem, d, count) ==
    IF count = 0 THEN <<>>
    ELSE <<(2 * rem) \div d>> \o QuotientBits((2 * rem) % d, d, count - 1)

\* the remainder left after those bits
RECURSIVE QuotientRem(_, _, _)
QuotientRem(rem, d, count) ==
    IF count = 0 THEN rem ELSE QuotientRem((2 * rem) % d, d, count - 1)

\* bits + one unit at position q, carrying to the left
RECURSIVE AddUnit(_, _)
AddUnit(bits, q) ==
    IF q = 0 THEN bits
    ELSE IF bits[q] = 0 THEN [bits EXCEPT ![q] = 1]
    ELSE AddUnit([bits EXCEPT ![q] = 0], q - 1)

\* round-to-nearest, ties-to-even, of the number `bits` (plus something below
\* its last bit when `sticky`) to Mantissa significant bits
RoundToNearestEven(bits, sticky) ==
    LET ones == {i \in DOMAIN bits : bits[i] = 1} IN
    IF ones = {} THEN bits
    ELSE LET first == CHOOSE i \in ones : \A j \in ones : i <= j
             last == first + Mantissa - 1
         IN  IF last >= Len(bits) THEN bits
             ELSE LET kept == [i \in DOMAIN bits |->
                                 IF i <= last THEN bits[i] ELSE 0]
                      below == sticky \/ \E j \in (last + 2)..Len(bits) :
                                             bits[j] = 1
                      up == bits[last + 1] = 1 /\ (below \/ bits[last] = 1)
                  IN  IF up THEN AddUnit(kept, last) ELSE kept

\* a bit string of FloatWidth bits, written out bit by bit
Bits(b) == [i \in 1..FloatWidth |-> b[i]]

FloatZero == [neg |-> FALSE, bits |-> [i \in 1..FloatWidth |-> 0]]

\* float(n) for an integer n, |n| < 2^IntBits
FloatOfInt(n) ==
    [neg |-> n < 0,
     bits |-> Bits(IntToBits(Abs(n)) \o [i \in 1..FracBits |-> 0])]

\* float(n) / d for integers n >= 0 and d >= 1: the correctly rounded quotient
FloatDivInt(n, d) ==
    LET extra == 3
        exact == IntToBits(n \div d) \o QuotientBits(n % d, d, FracBits + extra)
        rounded == RoundToNearestEven(exact,
                                      QuotientRem(n % d, d, FracBits + extra) # 0)
    IN  [neg |-> FALSE, bits |-> Bits(rounded)]

\* comparison of magnitudes (bit strings of equal length)
BitsLe(a, b) ==
    LET differ == {i \in DOMAIN a : a[i] # b[i]} IN
    \/ differ = {}
    \/ LET first == CHOOSE i \in differ : \A j \in differ : i <= j
       IN  a[first] < b[first]

\* a - b for bit strings with b <= a, from the last bit with a borrow
RECURSIVE BitsSub(_, _, _, _)
BitsSub(a, b, i, borrow) ==
    IF i = 0 THEN <<>>
    ELSE LET d == a[i] - b[i] - borrow
         IN  IF d < 0 THEN BitsSub(a, b, i - 1, 1) \o <<d + 2>>
             ELSE BitsSub(a, b, i - 1, 0) \o <<d>>

\* x - y for two non-negative floats: the exact difference, rounded
FloatSub(x, y) ==
    IF BitsLe(y.bits, x.bits)
    THEN [neg |-> FALSE,
          bits |-> Bits(RoundToNearestEven(
                            BitsSub(x.bits, y.bits, FloatWidth, 0), FALSE))]
    ELSE [neg |-> TRUE,
          bits |-> Bits(RoundToNearestEven(
                            BitsSub(y.bits, x.bits, FloatWidth, 0), FALSE))]

\* x >= y for a float x and a non-negative float y
FloatGe(x, y) == ~x.neg /\ BitsLe(y.bits, x.bits)

\* ----------------------------------------------------------- DailySummary
CounterFields ==
    {"meals_logged", "total_calories", "total_protein_g", "total_carbs_g",
     "total_fat_g", "total_fiber_g", "water_glasses", "app_sessions",
     "total_app_time_minutes", "photos_taken", "posts_created",
     "likes_given", "comments_made"}

GoalFields ==
    {"calorie_goal_met", "protein_goal_met", "water_goal_met",
     "meal_frequency_goal_met"}

ScoreFields ==
    {"nutrition_score", "consistency_score", "social_engagement_score",
     "overall_score"}

\* DailySummary(user_id=..., summary_date=...): the column defaults
DailySummary(id, user_id, summary_date) ==
    [id |-> id, user_id |-> user_id, summary_date |-> summary_date,
     meals_logged |-> 0, total_calories |-> 0, total_protein_g |-> 0,
     total_carbs_g |-> 0, total_fat_g |-> 0, total_fiber_g |-> 0,
     water_glasses |-> 0, app_sessions |-> 0, total_app_time_minutes |-> 0,
     photos_taken |-> 0, posts_created |-> 0, likes_given |-> 0,
     comments_made |-> 0,
     calorie_goal_met |-> FALSE, protein_goal_met |-> FALSE,
     water_goal_met |-> FALSE, meal_frequency_goal_met |-> FALSE,
     nutrition_score |-> RatInt(0), consistency_score |-> RatInt(0),
     social_engagement_score |-> RatInt(0), overall_score |-> RatInt(0)]

\* --------------------------------------------------------- score calculators
\* faulty variant: the logging bonus tiers in the wrong order
calculate_nutrition_score_swapped(summary) ==
    LET goals_met == BoolInt(summary.calorie_goal_met)
                     + BoolInt(summary.protein_goal_met)
                     + BoolInt(summary.water_goal_met)
                     + BoolInt(summary.meal_frequency_goal_met)
        s1 == RatMul(Rat(goals_met, 4), RatInt(60))
        s2 == IF summary.meals_logged >= 3 THEN RatAdd(s1, RatInt(10))
              ELSE IF summary.meals_logged >= 2 THEN RatAdd(s1, RatInt(15))
              ELSE IF summary.meals_logged >= 1 THEN RatAdd(s1, RatInt(20))
              ELSE s1
        s3 == IF summary.total_protein_g > 0 /\ summary.total_carbs_g > 0
                 /\ summary.total_fat_g > 0
              THEN RatAdd(s2, RatInt(20)) ELSE s2
    IN  RatMin(RatInt(100), s3)

\* faulty variant: the macro bonus for any positive macro (or for and)
calculate_nutrition_score_anymacro(summary) ==
    LET goals_met == BoolInt(summary.calorie_goal_met)
                     + BoolInt(summary.protein_goal_met)
                     + BoolInt(summary.water_goal_met)
                     + BoolInt(summary.meal_frequency_goal_met)
        s1 == RatMul(Rat(goals_met, 4), RatInt(60))
        s2 == IF summary.meals_logged >= 3 THEN RatAdd(s1, RatInt(20))
              ELSE IF summary.meals_logged >= 2 THEN RatAdd(s1, RatInt(15))
              ELSE IF summary.meals_logged >= 1 THEN RatAdd(s1, RatInt(10))
              ELSE s1
        s3 == IF summary.total_protein_g > 0 \/ summary.total_carbs_g > 0
                 \/ summary.total_fat_g > 0
              THEN RatAdd(s2, RatInt(20)) ELSE s2
    IN  RatMin(RatInt(100), s3)

calculate_nutrition_score(summary) ==
    LET goals_met == BoolInt(summary.calorie_goal_met)
                     + BoolInt(summary.protein_goal_met)
                     + BoolInt(summary.water_goal_met)
                     + BoolInt(summary.meal_frequency_goal_met)
        \* score += (goals_met / 4) * 60
        s1 == RatMul(Rat(goals_met, 4), RatInt(60))
        s2 == IF summary.meals_logged >= 3 THEN RatAdd(s1, RatInt(20))
              ELSE IF summary.meals_logged >= 2 THEN RatAdd(s1, RatInt(15))
              ELSE IF summary.meals_logged >= 1 THEN RatAdd(s1, RatInt(10))
              ELSE s1
        s3 == IF summary.total_protein_g > 0 /\ summary.total_carbs_g > 0
                 /\ summary.total_fat_g > 0
              THEN RatAdd(s2, RatInt(20)) ELSE s2
    IN  RatMin(RatInt(100), s3)

\* faulty variant: the score also reads posts_created
calculate_consistency_score_social(summary) ==
    IF summary.meals_logged >= 3 \/ summary.posts_created >= 3 THEN RatInt(100)
    ELSE IF summary.meals_logged >= 2 THEN RatInt(70)
    ELSE IF summary.meals_logged >= 1 THEN RatInt(40)
    ELSE RatInt(0)

calculate_consistency_score(summary) ==
    IF summary.meals_logged >= 3 THEN RatInt(100)
    ELSE IF summary.meals_logged >= 2 THEN RatInt(70)
    ELSE IF summary.meals_logged >= 1 THEN RatInt(40)
    ELSE RatInt(0)

\* faulty variant: the posts term without its cap of 40
calculate_social_score_uncapped(summary) ==
    LET s1 == IF summary.posts_created >= 1
              THEN summary.posts_created * 20 ELSE 0
        s2 == IF summary.likes_given >= 1
              THEN s1 + IntMin(30, summary.likes_given * 5) ELSE s1
        s3 == IF summary.comments_made >= 1
              THEN s2 + IntMin(30, summary.comments_made * 10) ELSE s2
    IN  RatMin(RatInt(100), RatInt(s3))

\* faulty variant: the terms without their `>= 1` guards
calculate_social_score_unguarded(summary) ==
    LET s1 == IntMin(40, summary.posts_created * 20)
        s2 == s1 + IntMin(30, summary.likes_given * 5)
        s3 == s2 + IntMin(30, summary.comments_made * 10)
    IN  RatMin(RatInt(100), RatInt(s3))

calculate_social_score(summary) ==
    LET s1 == IF summary.posts_created >= 1
              THEN IntMin(40, summary.posts_created * 20) ELSE 0
        s2 == IF summary.likes_given >= 1
              THEN s1 + IntMin(30, summary.likes_given * 5) ELSE s1
        s3 == IF summary.comments_made >= 1
              THEN s2 + IntMin(30, summary.comments_made * 10) ELSE s2
    IN  RatMin(RatInt(100), RatInt(s3))


\* ------------------------------------------------------------ UserProgress
\* faulty variant: a new row starts with a logging streak of one day
UserProgressStreakOne(user_id) ==
    [user_id |-> user_id,
     current_logging_streak |-> 1, longest_logging_streak |-> 1,
     current_goal_streak |-> 0, longest_goal_streak |-> 0,
     first_meal_logged_at |-> <<>>, first_goal_met_at |-> <<>>,
     first_social_post_at |-> <<>>, last_active_date |-> <<>>,
     total_meals_logged |-> 0, total_days_active |-> 0,
     total_photos_taken |-> 0, total_social_interactions |-> 0,
     avg_daily_calories |-> <<>>, avg_nutrition_score |-> RatInt(0),
     avg_consistency_score |-> RatInt(0)]

\* faulty variant: a new row counts the day of its creation as active
UserProgressActiveDay(user_id) ==
    [user_id |-> user_id,
     current_logging_streak |-> 0, longest_logging_streak |-> 0,
     current_goal_streak |-> 0, longest_goal_streak |-> 0,
     first_meal_logged_at |-> <<>>, first_goal_met_at |-> <<>>,
     first_social_post_at |-> <<>>, last_active_date |-> <<1>>,
     total_meals_logged |-> 0, total_days_active |-> 1,
     total_photos_taken |-> 0, total_social_interactions |-> 0,
     avg_daily_calories |-> <<>>, avg_nutrition_score |-> RatInt(0),
     avg_consistency_score |-> RatInt(0)]

\* UserProgress(user_id=...): the column defaults
UserProgress(user_id) ==
    [user_id |-> user_id,
     current_logging_streak |-> 0, longest_logging_streak |-> 0,
     current_goal_streak |-> 0, longest_goal_streak |-> 0,
     first_meal_logged_at |-> <<>>, first_goal_met_at |-> <<>>,
     first_social_post_at |-> <<>>, last_active_date |-> <<>>,
     total_meals_logged |-> 0, total_days_active |-> 0,
     total_photos_taken |-> 0, total_social_interactions |-> 0,
     avg_daily_calories |-> <<>>, avg_nutrition_score |-> RatInt(0),
     avg_consistency_score |-> RatInt(0)]

\* ------------------------------------------------------------------ state
VARIABLES
    daily_summaries,   \* table daily_summaries: the committed rows
    analytics_events,  \* table analytics_events: the committed rows, in insert order
    user_progress,     \* table user_progress: the committed rows
    pc,                \* per request: where its handler stands
    call,              \* per request: the operation and its arguments
    obj,               \* per request: the ORM object held by its session ({} = None)
    loaded,            \* per request: the object as last loaded (SQLAlchemy's committed state)
    outcome,           \* per request: "none", "ok" or the error raised
    response,          \* per request: the row returned ({} = none yet)
    ops,               \* number of requests started so far
    posts,             \* table posts: the committed rows
    post_likes,        \* table post_likes: the committed rows
    calcIn,            \* score calculator harness: the snapshot
    calcOut,           \* score calculator harness: the scores of calcIn ({} = not computed)
    calcPrev           \* score calculator harness: the previous meals_logged and scores

vars == <<daily_summaries, analytics_events, user_progress, pc, call, obj,
          loaded, outcome, response, ops, posts, post_likes, calcIn, calcOut,
          calcPrev>>

dbVars == <<daily_summaries, analytics_events, user_progress, pc, call, obj,
            loaded, outcome, response, ops, posts, post_likes>>
calcVars == <<calcIn, calcOut, calcPrev>>
socialVars == <<posts, post_likes>>

NoCall == [op |-> "none", user |-> 0, date |-> 0, updates |-> <<>>]

\* ------------------------------------------------------- request payloads
\* update_daily_summary(**updates): keyword -> None | value
ExampleUpdate ==
    [meals_logged |-> <<3>>, total_protein_g |-> <<10>>,
     total_carbs_g |-> <<20>>, total_fat_g |-> <<5>>]
OneMealUpdate == [meals_logged |-> <<1>>, posts_created |-> <<>>]
SocialUpdate ==
    [posts_created |-> <<2>>, likes_given |-> <<1>>, meals_logged |-> <<>>]
GoalsUpdate == [calorie_goal_met |-> <<TRUE>>, water_goal_met |-> <<TRUE>>]
NegativeMealsUpdate == [meals_logged |-> <<-1>>, photos_taken |-> <<1>>]
ScoreUpdate == [overall_score |-> <<RatInt(99)>>, no_such_field |-> <<1>>]

\* payloads that carry counters below zero, counters beyond every cap and
\* score columns (the service takes any keyword the row has as an attribute)
NegativeSocialUpdate ==
    [posts_created |-> <<-1>>, likes_given |-> <<-2>>, comments_made |-> <<-1>>]
OutOfRangeScoreUpdate ==
    [nutrition_score |-> <<RatInt(150)>>, overall_score |-> <<RatInt(-5)>>,
     social_engagement_score |-> <<RatInt(101)>>]
FullDayUpdate ==
    [meals_logged |-> <<MaxMeals>>, total_protein_g |-> <<MaxMacro>>,
     total_carbs_g |-> <<MaxMacro>>, total_fat_g |-> <<MaxMacro>>,
     calorie_goal_met |-> <<TRUE>>, protein_goal_met |-> <<TRUE>>,
     water_goal_met |-> <<TRUE>>, meal_frequency_goal_met |-> <<TRUE>>,
     posts_created |-> <<MaxPosts>>, likes_given |-> <<MaxLikes>>,
     comments_made |-> <<MaxComments>>]
RangeUpdates ==
    {NegativeSocialUpdate, OutOfRangeScoreUpdate, FullDayUpdate,
     NegativeMealsUpdate}

\* the payloads of the requests served one at a time
Updates ==
    {ExampleUpdate, SocialUpdate, GoalsUpdate, NegativeMealsUpdate,
     ScoreUpdate}

\* ------------------------------------------------------------ the database
\* Index("idx_daily_summaries_user_date", "user_id", "summary_date", unique=True)
\* and the primary key id
\* faulty variant: the index without unique=True
DailySummaryUniqueOff(table, row) == FALSE

DailySummaryUnique(table, row) ==
    \E s \in table :
        \/ s.id = row.id
        \/ s.user_id = row.user_id /\ s.summary_date = row.summary_date

\* CheckConstraint("total_calories >= 0"), CheckConstraint("meals_logged >= 0")
DailySummaryChecks(row) == row.total_calories >= 0 /\ row.meals_logged >= 0

\* user_id: primary_key=True
UserProgressUnique(table, row) == \E p \in table : p.user_id = row.user_id

\* select(DailySummary).where(user_id == ..., summary_date == ...)
SelectDailySummary(user_id, summary_date) ==
    {s \in daily_summaries :
        s.user_id = user_id /\ s.summary_date = summary_date}

\* uuid4(): an id no row and no pending object has
UsedIds ==
    {s.id : s \in daily_summaries}
    \cup UNION {{o.id : o \in obj[r]} :
                   r \in {q \in Req : call[q].op \in {"update", "get_or_create"}}}

uuid4 ==
    CHOOSE i \in 1..(Cardinality(UsedIds) + 1) :
        i \notin UsedIds /\ \A j \in 1..(i - 1) : j \in UsedIds

\* --------------------------------------------------- update_daily_summary
\* for field, value in updates.items():
\*     if hasattr(summary, field) and value is not None: setattr(...)
\* faulty variant: a None value resets the field instead of being skipped
ApplyUpdatesNullResets(summary, updates) ==
    [f \in DOMAIN summary |->
        IF f \in DOMAIN updates
        THEN (IF updates[f] # <<>> THEN updates[f][1] ELSE 0)
        ELSE summary[f]]

\* faulty variant: a provided counter is added to the stored one
ApplyUpdatesAdditive(summary, updates) ==
    [f \in DOMAIN summary |->
        IF f \in DOMAIN updates /\ updates[f] # <<>>
        THEN (IF f \in CounterFields
              THEN summary[f] + updates[f][1] ELSE updates[f][1])
        ELSE summary[f]]

ApplyUpdates(summary, updates) ==
    [f \in DOMAIN summary |->
        IF f \in DOMAIN updates /\ updates[f] # <<>>
        THEN updates[f][1] ELSE summary[f]]

\* faulty variant: overall_score computed from the scores before recalculation
RecalculateScoresStaleOverall(summary) ==
    LET n == calculate_nutrition_score(summary)
        c == calculate_consistency_score(summary)
        s == calculate_social_score(summary)
    IN  [summary EXCEPT
            !.nutrition_score = n, !.consistency_score = c,
            !.social_engagement_score = s,
            !.overall_score =
                RatDivInt(RatAdd(RatAdd(summary.nutrition_score,
                                        summary.consistency_score),
                                 summary.social_engagement_score), 3)]

\* faulty variant: the social score is not recalculated
RecalculateScoresNoSocial(summary) ==
    LET n == calculate_nutrition_score(summary)
        c == calculate_consistency_score(summary)
        s == summary.social_engagement_score
    IN  [summary EXCEPT
            !.nutrition_score = n, !.consistency_score = c,
            !.social_engagement_score = s,
            !.overall_score = RatDivInt(RatAdd(RatAdd(n, c), s), 3)]

RecalculateScores(summary) ==
    LET n == calculate_nutrition_score(summary)
        c == calculate_consistency_score(summary)
        s == calculate_social_score(summary)
    IN  [summary EXCEPT
            !.nutrition_score = n, !.consistency_score = c,
            !.social_engagement_score = s,
            !.overall_score = RatDivInt(RatAdd(RatAdd(n, c), s), 3)]

\* The unit of work's UPDATE: only the attributes whose value differs from
\* the loaded one are written, WHERE id = the object's primary key.
ChangedColumns(o, base) == {f \in DOMAIN o : o[f] # base[f]}

FlushUpdate(row, o, base) ==
    [f \in DOMAIN row |->
        IF f \in ChangedColumns(o, base) THEN o[f] ELSE row[f]]

\* -------------------------------------------------------------- handlers
IsSummaryOp(r) == call[r].op \in {"update", "get_or_create"}

\* get_session(): on an exception the session is rolled back and closed and
\* the error is raised to the caller
Raise(r, error) ==
    /\ pc' = [pc EXCEPT ![r] = "failed"]
    /\ outcome' = [outcome EXCEPT ![r] = error]
    /\ obj' = [obj EXCEPT ![r] = {}]
    /\ loaded' = [loaded EXCEPT ![r] = {}]
    /\ UNCHANGED response

\* a handler returns `row`
Return(r, row) ==
    /\ pc' = [pc EXCEPT ![r] = "done"]
    /\ outcome' = [outcome EXCEPT ![r] = "ok"]
    /\ response' = [response EXCEPT ![r] = {row}]

\* a request arrives: the router calls the service with the user's id
Start(r, op, user, date, updates) ==
    /\ pc[r] = "idle"
    /\ ops < MaxOps
    /\ ops' = ops + 1
    /\ pc' = [pc EXCEPT ![r] = "select"]
    /\ call' = [call EXCEPT ![r] =
                  [op |-> op, user |-> user, date |-> date, updates |-> updates]]
    /\ UNCHANGED <<daily_summaries, user_progress, obj, loaded, outcome,
                   response, calcVars, socialVars,
                   analytics_events>>

\* get_or_create_daily_summary: the select and, when no row is found, the
\* construction of the new object
GetOrCreateSelect(r) ==
    /\ pc[r] = "select"
    /\ IsSummaryOp(r)
    /\ LET found == SelectDailySummary(call[r].user, call[r].date) IN
       IF found # {}
       THEN \E s \in found :
              /\ obj' = [obj EXCEPT ![r] = {s}]
              /\ loaded' = [loaded EXCEPT ![r] = {s}]
              /\ IF call[r].op = "update"
                 THEN /\ pc' = [pc EXCEPT ![r] = "apply"]
                      /\ UNCHANGED <<outcome, response>>
                 ELSE Return(r, s)
       ELSE /\ obj' = [obj EXCEPT ![r] =
                         {DailySummary(uuid4, call[r].user, call[r].date)}]
            /\ pc' = [pc EXCEPT ![r] = "insert"]
            /\ UNCHANGED <<loaded, outcome, response>>
    /\ UNCHANGED <<daily_summaries, user_progress, call, ops, calcVars, socialVars,
                   analytics_events>>

\* get_or_create_daily_summary: session.add(summary); await session.commit()
GetOrCreateInsert(r) ==
    /\ pc[r] = "insert"
    /\ IsSummaryOp(r)
    /\ \E s \in obj[r] :
         IF DailySummaryUnique(daily_summaries, s)
         THEN Raise(r, "UniqueViolation") /\ UNCHANGED daily_summaries
         ELSE IF ~DailySummaryChecks(s)
         THEN Raise(r, "CheckViolation") /\ UNCHANGED daily_summaries
         ELSE /\ daily_summaries' = daily_summaries \cup {s}
              /\ pc' = [pc EXCEPT ![r] = "refresh_new"]
              /\ UNCHANGED <<obj, loaded, outcome, response>>
    /\ UNCHANGED <<user_progress, call, ops, calcVars, socialVars,
                   analytics_events>>

\* get_or_create_daily_summary: await session.refresh(summary); return
GetOrCreateRefresh(r) ==
    /\ pc[r] = "refresh_new"
    /\ IsSummaryOp(r)
    /\ \E o \in obj[r] : \E s \in daily_summaries :
         /\ s.id = o.id
         /\ obj' = [obj EXCEPT ![r] = {s}]
         /\ loaded' = [loaded EXCEPT ![r] = {s}]
         /\ IF call[r].op = "update"
            THEN /\ pc' = [pc EXCEPT ![r] = "apply"]
                 /\ UNCHANGED <<outcome, response>>
            ELSE Return(r, s)
    /\ UNCHANGED <<daily_summaries, user_progress, call, ops, calcVars, socialVars,
                   analytics_events>>

\* update_daily_summary: the setattr loop and the score recalculation
UpdateApply(r) ==
    /\ pc[r] = "apply"
    /\ \E o \in obj[r] :
         obj' = [obj EXCEPT ![r] =
                   {RecalculateScores(ApplyUpdates(o, call[r].updates))}]
    /\ pc' = [pc EXCEPT ![r] = "commit"]
    /\ UNCHANGED <<daily_summaries, user_progress, call, loaded, outcome,
                   response, ops, calcVars, socialVars,
                   analytics_events>>

\* update_daily_summary: await session.commit()
UpdateCommit(r) ==
    /\ pc[r] = "commit"
    /\ \E o \in obj[r] : \E base \in loaded[r] :
         IF ChangedColumns(o, base) = {}
         THEN /\ pc' = [pc EXCEPT ![r] = "refresh"]
              /\ UNCHANGED <<daily_summaries, obj, loaded, outcome, response>>
         ELSE \E row \in daily_summaries :
              /\ row.id = o.id
              /\ LET new == FlushUpdate(row, o, base) IN
                 IF ~DailySummaryChecks(new)
                 THEN Raise(r, "CheckViolation") /\ UNCHANGED daily_summaries
                 ELSE /\ daily_summaries' =
                            (daily_summaries \ {row}) \cup {new}
                      /\ pc' = [pc EXCEPT ![r] = "refresh"]
                      /\ UNCHANGED <<obj, loaded, outcome, response>>
    /\ UNCHANGED <<user_progress, call, ops, calcVars, socialVars,
                   analytics_events>>

\* update_daily_summary: await session.refresh(summary); return the response
UpdateRefresh(r) ==
    /\ pc[r] = "refresh"
    /\ \E o \in obj[r] : \E s \in daily_summaries :
         /\ s.id = o.id
         /\ obj' = [obj EXCEPT ![r] = {s}]
         /\ loaded' = [loaded EXCEPT ![r] = {s}]
         /\ Return(r, s)
    /\ UNCHANGED <<daily_summaries, user_progress, call, ops, calcVars, socialVars,
                   analytics_events>>

\* get_user_progress: the select and, when no row is found, the new object
ProgressSelect(r) ==
    /\ pc[r] = "select"
    /\ call[r].op = "get_user_progress"
    /\ LET found == {p \in user_progress : p.user_id = call[r].user} IN
       IF found # {}
       THEN \E p \in found :
              /\ obj' = [obj EXCEPT ![r] = {p}]
              /\ loaded' = [loaded EXCEPT ![r] = {p}]
              /\ Return(r, p)
       ELSE /\ obj' = [obj EXCEPT ![r] = {UserProgress(call[r].user)}]
            /\ pc' = [pc EXCEPT ![r] = "insert"]
            /\ UNCHANGED <<loaded, outcome, response>>
    /\ UNCHANGED <<daily_summaries, user_progress, call, ops, calcVars, socialVars,
                   analytics_events>>

\* get_user_progress: session.add(progress); await session.commit()
ProgressInsert(r) ==
    /\ pc[r] = "insert"
    /\ call[r].op = "get_user_progress"
    /\ \E p \in obj[r] :
         IF UserProgressUnique(user_progress, p)
         THEN Raise(r, "UniqueViolation") /\ UNCHANGED user_progress
         ELSE /\ user_progress' = user_progress \cup {p}
              /\ pc' = [pc EXCEPT ![r] = "refresh_new"]
              /\ UNCHANGED <<obj, loaded, outcome, response>>
    /\ UNCHANGED <<daily_summaries, call, ops, calcVars, socialVars,
                   analytics_events>>

\* get_user_progress: await session.refresh(progress); return the response
ProgressRefresh(r) ==
    /\ pc[r] = "refresh_new"
    /\ call[r].op = "get_user_progress"
    /\ \E o \in obj[r] : \E p \in user_progress :
         /\ p.user_id = o.user_id
         /\ obj' = [obj EXCEPT ![r] = {p}]
         /\ loaded' = [loaded EXCEPT ![r] = {p}]
         /\ Return(r, p)
    /\ UNCHANGED <<daily_summaries, user_progress, call, ops, calcVars, socialVars,
                   analytics_events>>

\* the response is sent (or the error surfaced) and the session closed
Finish(r) ==
    /\ pc[r] \in {"done", "failed"}
    /\ pc' = [pc EXCEPT ![r] = "idle"]
    /\ call' = [call EXCEPT ![r] = NoCall]
    /\ obj' = [obj EXCEPT ![r] = {}]
    /\ loaded' = [loaded EXCEPT ![r] = {}]
    /\ outcome' = [outcome EXCEPT ![r] = "none"]
    /\ response' = [response EXCEPT ![r] = {}]
    /\ UNCHANGED <<daily_summaries, user_progress, ops, calcVars, socialVars,
                   analytics_events>>

Step(r) ==
    \/ GetOrCreateSelect(r)
    \/ GetOrCreateInsert(r)
    \/ GetOrCreateRefresh(r)
    \/ UpdateApply(r)
    \/ UpdateCommit(r)
    \/ UpdateRefresh(r)
    \/ ProgressSelect(r)
    \/ ProgressInsert(r)
    \/ ProgressRefresh(r)
    \/ Finish(r)

\* ---------------------------------------------------- get_weekly_summary
\* week_end_date = week_start_date + timedelta(days=6)
WeekSpan == 6

\* select(DailySummary).where(user_id == ..., summary_date >= week_start_date,
\*                            summary_date <= week_end_date)
\* faulty variant: the last day of the week left out
SelectWeekExclusiveEnd(user_id, week_start_date, week_end_date) ==
    {s \in daily_summaries :
        /\ s.user_id = user_id
        /\ s.summary_date >= week_start_date
        /\ s.summary_date < week_end_date}

SelectWeek(user_id, week_start_date, week_end_date) ==
    {s \in daily_summaries :
        /\ s.user_id = user_id
        /\ s.summary_date >= week_start_date
        /\ s.summary_date <= week_end_date}

\* .order_by(DailySummary.summary_date): the rows as a list, earliest first
RECURSIVE OrderByDate(_)
OrderByDate(rows) ==
    IF rows = {} THEN <<>>
    ELSE LET first == CHOOSE s \in rows :
                         \A t \in rows : s.summary_date <= t.summary_date
         IN  <<first>> \o OrderByDate(rows \ {first})

\* sum(s.<field> for s in daily_summaries)
RECURSIVE SumField(_, _)
SumField(list, field) ==
    IF list = <<>> THEN 0 ELSE list[1][field] + SumField(Tail(list), field)

\* sum(s.<score> for s in daily_summaries)
RECURSIVE SumScore(_, _)
SumScore(list, field) ==
    IF list = <<>> THEN RatInt(0)
    ELSE RatAdd(list[1][field], SumScore(Tail(list), field))

\* sum(1 for s in daily_summaries if s.<flag>)
RECURSIVE CountMet(_, _)
CountMet(list, flag) ==
    IF list = <<>> THEN 0
    ELSE BoolInt(list[1][flag]) + CountMet(Tail(list), flag)

\* (goals_met / days_count) * 100
\* faulty variant: the rate over the seven days of the week
GoalRateOfWeek(goals_met, days_count) ==
    RatMul(Rat(goals_met, WeekSpan + 1), RatInt(100))

GoalRate(goals_met, days_count) ==
    RatMul(Rat(goals_met, days_count), RatInt(100))

\* `if not daily_summaries:`
\* faulty variant: the empty week is not special-cased
WeekIsEmptyNever(list) == FALSE

WeekIsEmpty(list) == list = <<>>

\* the WeeklySummaryResponse of a week without rows
EmptyWeek(week_start_date, list) ==
    [week_start_date |-> week_start_date,
     week_end_date |-> week_start_date + WeekSpan,
     total_meals_logged |-> 0,
     avg_daily_calories |-> RatInt(0), avg_daily_protein_g |-> RatInt(0),
     avg_daily_carbs_g |-> RatInt(0), avg_daily_fat_g |-> RatInt(0),
     total_water_glasses |-> 0, total_photos_taken |-> 0,
     calorie_goal_achievement_rate |-> RatInt(0),
     protein_goal_achievement_rate |-> RatInt(0),
     water_goal_achievement_rate |-> RatInt(0),
     meal_frequency_goal_achievement_rate |-> RatInt(0),
     avg_nutrition_score |-> RatInt(0), avg_consistency_score |-> RatInt(0),
     avg_social_engagement_score |-> RatInt(0),
     avg_overall_score |-> RatInt(0),
     daily_summaries |-> list]

\* the WeeklySummaryResponse aggregated from the rows of the week
AggregateWeek(week_start_date, list) ==
    LET days_count == Len(list) IN
    [week_start_date |-> week_start_date,
     week_end_date |-> week_start_date + WeekSpan,
     total_meals_logged |-> SumField(list, "meals_logged"),
     avg_daily_calories |-> Rat(SumField(list, "total_calories"), days_count),
     avg_daily_protein_g |-> Rat(SumField(list, "total_protein_g"), days_count),
     avg_daily_carbs_g |-> Rat(SumField(list, "total_carbs_g"), days_count),
     avg_daily_fat_g |-> Rat(SumField(list, "total_fat_g"), days_count),
     total_water_glasses |-> SumField(list, "water_glasses"),
     total_photos_taken |-> SumField(list, "photos_taken"),
     calorie_goal_achievement_rate |->
         GoalRate(CountMet(list, "calorie_goal_met"), days_count),
     protein_goal_achievement_rate |->
         GoalRate(CountMet(list, "protein_goal_met"), days_count),
     water_goal_achievement_rate |->
         GoalRate(CountMet(list, "water_goal_met"), days_count),
     meal_frequency_goal_achievement_rate |->
         GoalRate(CountMet(list, "meal_frequency_goal_met"), days_count),
     avg_nutrition_score |->
         RatDivInt(SumScore(list, "nutrition_score"), days_count),
     avg_consistency_score |->
         RatDivInt(SumScore(list, "consistency_score"), days_count),
     avg_social_engagement_score |->
         RatDivInt(SumScore(list, "social_engagement_score"), days_count),
     avg_overall_score |->
         RatDivInt(SumScore(list, "overall_score"), days_count),
     daily_summaries |-> list]

\* get_weekly_summary: one select, then the aggregation; a division by a
\* days_count of 0 raises ZeroDivisionError
GetWeeklySummary(r) ==
    /\ pc[r] = "select"
    /\ call[r].op = "get_weekly_summary"
    /\ LET week_start_date == call[r].date
           week_end_date == week_start_date + WeekSpan
           list == OrderByDate(SelectWeek(call[r].user, week_start_date,
                                          week_end_date))
       IN  IF WeekIsEmpty(list)
           THEN Return(r, EmptyWeek(week_start_date, list))
                /\ UNCHANGED <<obj, loaded>>
           ELSE IF Len(list) = 0
           THEN Raise(r, "ZeroDivisionError")
           ELSE Return(r, AggregateWeek(week_start_date, list))
                /\ UNCHANGED <<obj, loaded>>
    /\ UNCHANGED <<daily_summaries, user_progress, call, ops, calcVars, socialVars,
                   analytics_events>>

\* ------------------------------------------------------ generate_insights
\* start_date = end_date - timedelta(days=30)
InsightWindow == 30

\* select(DailySummary).where(user_id == ..., summary_date >= start_date,
\*                            summary_date <= end_date)
SelectRecent(user_id, start_date, end_date) ==
    {s \in daily_summaries :
        /\ s.user_id = user_id
        /\ s.summary_date >= start_date
        /\ s.summary_date <= end_date}

\* .order_by(desc(DailySummary.summary_date)): the rows, latest first
RECURSIVE OrderByDateDesc(_)
OrderByDateDesc(rows) ==
    IF rows = {} THEN <<>>
    ELSE LET first == CHOOSE s \in rows :
                         \A t \in rows : s.summary_date >= t.summary_date
         IN  <<first>> \o OrderByDateDesc(rows \ {first})

\* for i, summary in enumerate(recent_summaries): ... else: break
\* (the count of the iterations from index i on)
\* faulty variant: the date of the row is not compared with end_date - i
RECURSIVE CountStreakAnyDate(_, _, _)
CountStreakAnyDate(recent_summaries, i, end_date) ==
    IF i >= Len(recent_summaries) THEN 0
    ELSE LET summary == recent_summaries[i + 1] IN
         IF summary.meals_logged > 0
         THEN 1 + CountStreakAnyDate(recent_summaries, i + 1, end_date)
         ELSE 0

RECURSIVE CountStreak(_, _, _)
CountStreak(recent_summaries, i, end_date) ==
    IF i >= Len(recent_summaries) THEN 0
    ELSE LET summary == recent_summaries[i + 1]
             expected_date == end_date - i
         IN  IF summary.summary_date = expected_date /\ summary.meals_logged > 0
             THEN 1 + CountStreak(recent_summaries, i + 1, end_date)
             ELSE 0

\* the streak insight: `if consecutive_days >= 7: ... elif consecutive_days >= 3:`
\* (the title is its leading word and the number of days in it)
StreakInsight(tag, consecutive_days) ==
    [insight_type |-> "streak",
     title |-> [tag |-> tag, days |-> consecutive_days],
     data |-> [streak_days |-> consecutive_days]]

\* faulty variant: `> 7` for `>= 7`
StreakInsightsAfterSeven(consecutive_days) ==
    IF consecutive_days > 7
    THEN <<StreakInsight("Amazing", consecutive_days)>>
    ELSE IF consecutive_days >= 3
    THEN <<StreakInsight("Great", consecutive_days)>>
    ELSE <<>>

StreakInsights(consecutive_days) ==
    IF consecutive_days >= 7
    THEN <<StreakInsight("Amazing", consecutive_days)>>
    ELSE IF consecutive_days >= 3
    THEN <<StreakInsight("Great", consecutive_days)>>
    ELSE <<>>

\* sum(s.nutrition_score for s in week) / len(week): the sum of the scores is
\* exact (every nutrition score is a whole number, 15 * goals + bonuses), the
\* quotient is rounded
AvgNutrition(week) ==
    LET total == SumScore(week, "nutrition_score")
    IN  FloatDivInt(total[1], total[2] * Len(week))

\* faulty variant: the two weeks are compared only when the 14 newest rows
\* are 14 consecutive days
TrendInsightsConsecutiveDays(recent_summaries) ==
    IF Len(recent_summaries) >= 14
       /\ recent_summaries[1].summary_date
              - recent_summaries[14].summary_date = 13
    THEN LET recent_avg_nutrition ==
                 AvgNutrition(SubSeq(recent_summaries, 1, 7))
             previous_avg_nutrition ==
                 AvgNutrition(SubSeq(recent_summaries, 8, 14))
             improvement == FloatSub(recent_avg_nutrition,
                                     previous_avg_nutrition)
         IN  IF FloatGe(improvement, FloatOfInt(5))
             THEN <<[insight_type |-> "improvement",
                     title |-> [tag |-> "Nutrition Score Improving!",
                                days |-> 0],
                     data |-> [recent_score |-> recent_avg_nutrition,
                               previous_score |-> previous_avg_nutrition,
                               improvement |-> improvement]]>>
             ELSE <<>>
    ELSE <<>>

\* the nutrition trend: `if len(recent_summaries) >= 7:` ...
TrendInsights(recent_summaries) ==
    IF Len(recent_summaries) >= 7
    THEN LET recent_week == SubSeq(recent_summaries, 1, 7)
             previous_week == IF Len(recent_summaries) >= 14
                              THEN SubSeq(recent_summaries, 8, 14) ELSE <<>>
         IN  IF previous_week # <<>>
             THEN LET recent_avg_nutrition == AvgNutrition(recent_week)
                      previous_avg_nutrition == AvgNutrition(previous_week)
                      improvement == FloatSub(recent_avg_nutrition,
                                              previous_avg_nutrition)
                  IN  IF FloatGe(improvement, FloatOfInt(5))
                      THEN <<[insight_type |-> "improvement",
                              title |-> [tag |-> "Nutrition Score Improving!",
                                         days |-> 0],
                              data |-> [recent_score |-> recent_avg_nutrition,
                                        previous_score |-> previous_avg_nutrition,
                                        improvement |-> improvement]]>>
                      ELSE <<>>
             ELSE <<>>
    ELSE <<>>

\* generate_insights(user_id) with end_date = date.today(): the list returned
\* and the local consecutive_days (0 while it is not assigned)
\* faulty variant: the trend insight is appended before the streak insight
generate_insights_trend_first(user_id, end_date) ==
    LET start_date == end_date - InsightWindow
        recent_summaries ==
            OrderByDateDesc(SelectRecent(user_id, start_date, end_date))
        consecutive_days == CountStreak(recent_summaries, 0, end_date)
    IN  IF recent_summaries = <<>>
        THEN [insights |-> <<>>, consecutive_days |-> 0]
        ELSE [insights |-> TrendInsights(recent_summaries)
                           \o StreakInsights(consecutive_days),
              consecutive_days |-> consecutive_days]

generate_insights(user_id, end_date) ==
    LET start_date == end_date - InsightWindow
        recent_summaries ==
            OrderByDateDesc(SelectRecent(user_id, start_date, end_date))
        consecutive_days == CountStreak(recent_summaries, 0, end_date)
    IN  IF recent_summaries = <<>>
        THEN [insights |-> <<>>, consecutive_days |-> 0]
        ELSE [insights |-> StreakInsights(consecutive_days)
                           \o TrendInsights(recent_summaries),
              consecutive_days |-> consecutive_days]

\* the insights request: one select, then the walk and the comparison
GenerateInsights(r) ==
    /\ pc[r] = "select"
    /\ call[r].op = "generate_insights"
    /\ Return(r, generate_insights(call[r].user, call[r].date))
    /\ UNCHANGED <<daily_summaries, user_progress, call, obj, loaded, ops,
                   calcVars, socialVars,
                   analytics_events>>

\* ----------------------------------------------------- track_events_batch
\* if len(events_data) > 100: raise BadRequestError(...)
MaxBatch == 100

\* faulty variant: `>=` for `>`
BatchTooLargeAtLimit(events_data) == Len(events_data) >= MaxBatch

BatchTooLarge(events_data) == Len(events_data) > MaxBatch

\* AnalyticsEvent(user_id=user_id, event_type=..., properties=...) for each
\* request of the batch, in order; the ids are new
NewEvents(user_id, events_data) ==
    [i \in 1..Len(events_data) |->
        [id |-> Len(analytics_events) + i,
         user_id |-> user_id,
         event_type |-> events_data[i].event_type,
         properties |-> events_data[i].properties]]

\* faulty variant: the commit rewrites the table with the new events only
InsertEventsReplacing(table, events) == events

\* session.add(event) / session.add_all(events), then commit: INSERTs only
InsertEvents(table, events) == table \o events

\* track_events_batch: the size check and, for an accepted batch,
\* session.add_all(events); await session.commit()
TrackEventsBatch(r) ==
    /\ pc[r] = "select"
    /\ call[r].op = "track_events_batch"
    /\ IF BatchTooLarge(call[r].updates)
       THEN Raise(r, "BadRequestError") /\ UNCHANGED analytics_events
       ELSE LET events == NewEvents(call[r].user, call[r].updates) IN
            /\ analytics_events' = InsertEvents(analytics_events, events)
            /\ obj' = [obj EXCEPT ![r] = {events}]
            /\ pc' = [pc EXCEPT ![r] = "refresh_new"]
            /\ UNCHANGED <<loaded, outcome, response>>
    /\ UNCHANGED <<daily_summaries, user_progress, call, ops, calcVars, socialVars>>

\* track_events_batch: the refresh of every event and the list of responses
TrackEventsBatchReturn(r) ==
    /\ pc[r] = "refresh_new"
    /\ call[r].op = "track_events_batch"
    /\ \E events \in obj[r] :
         LET stored == [i \in DOMAIN events |->
                          CHOOSE e \in {analytics_events[j] :
                                          j \in DOMAIN analytics_events} :
                              e.id = events[i].id]
         IN  /\ loaded' = [loaded EXCEPT ![r] = {stored}]
             /\ obj' = [obj EXCEPT ![r] = {stored}]
             /\ Return(r, stored)
    /\ UNCHANGED <<daily_summaries, analytics_events, user_progress, call, ops,
                   calcVars, socialVars>>

\* ------------------------------------------------------------ track_event
\* track_event: the event is built from the request, added and committed
TrackEvent(r) ==
    /\ pc[r] = "select"
    /\ call[r].op = "track_event"
    /\ LET events == NewEvents(call[r].user, <<call[r].updates>>) IN
       /\ analytics_events' = InsertEvents(analytics_events, events)
       /\ obj' = [obj EXCEPT ![r] = {events[1]}]
       /\ pc' = [pc EXCEPT ![r] = "refresh_new"]
       /\ UNCHANGED <<loaded, outcome, response>>
    /\ UNCHANGED <<daily_summaries, user_progress, call, ops, calcVars,
                   socialVars>>

\* track_event: await session.refresh(event); return the response
TrackEventReturn(r) ==
    /\ pc[r] = "refresh_new"
    /\ call[r].op = "track_event"
    /\ \E event \in obj[r] :
         \E i \in DOMAIN analytics_events :
            /\ analytics_events[i].id = event.id
            /\ loaded' = [loaded EXCEPT ![r] = {analytics_events[i]}]
            /\ obj' = [obj EXCEPT ![r] = {analytics_events[i]}]
            /\ Return(r, analytics_events[i])
    /\ UNCHANGED <<daily_summaries, analytics_events, user_progress, call, ops,
                   calcVars, socialVars>>

\* ------------------------------------------------------ get_daily_summary
\* faulty variant: a missing row is answered with a zero-valued summary
get_daily_summary_default(user_id, summary_date) ==
    LET found == SelectDailySummary(user_id, summary_date) IN
    IF found = {} THEN <<DailySummary(0, user_id, summary_date)>>
    ELSE <<CHOOSE s \in found : TRUE>>

\* summary = result.first(); if not summary: return None
get_daily_summary(user_id, summary_date) ==
    LET found == SelectDailySummary(user_id, summary_date) IN
    IF found = {} THEN <<>> ELSE <<CHOOSE s \in found : TRUE>>

\* the daily summary request: one select, None (<<>>) or the row's response
GetDailySummary(r) ==
    /\ pc[r] = "select"
    /\ call[r].op = "get_daily_summary"
    /\ Return(r, get_daily_summary(call[r].user, call[r].date))
    /\ UNCHANGED <<daily_summaries, analytics_events, user_progress, call, obj,
                   loaded, ops, calcVars, socialVars>>

\* ------------------------------------------------------- toggle_post_like
\* Post(user_id=...): likes_count defaults to 0, deleted_at to None
Post(id, user_id) ==
    [id |-> id, user_id |-> user_id, likes_count |-> 0, deleted_at |-> <<>>]

\* PostLike(post_id=post_id, user_id=user_id); created_at is the time of
\* the insert, counted in requests
PostLike(post_id, user_id, created_at) ==
    [post_id |-> post_id, user_id |-> user_id, created_at |-> created_at]

\* post_likes: post_id and user_id are the primary key
PostLikeUnique(table, row) ==
    \E l \in table : l.post_id = row.post_id /\ l.user_id = row.user_id

IntMax(a, b) == IF a >= b THEN a ELSE b

\* select(Post).where(Post.id == post_id, Post.deleted_at.is_(None))
SelectPost(post_id) ==
    {p \in posts : p.id = post_id /\ p.deleted_at = <<>>}

\* select(PostLike).where(post_id == ..., user_id == ...)
SelectPostLike(post_id, user_id) ==
    {l \in post_likes : l.post_id = post_id /\ l.user_id = user_id}

\* faulty variant: the unlike branch leaves likes_count as it is
LikesCountAfterKeptOnUnlike(likes_count, existing_like) ==
    IF existing_like # {} THEN likes_count ELSE likes_count + 1

\* post.likes_count = max(0, post.likes_count - 1)  |  post.likes_count += 1
LikesCountAfter(likes_count, existing_like) ==
    IF existing_like # {}
    THEN IntMax(0, likes_count - 1)
    ELSE likes_count + 1

\* toggle_post_like: the two selects
ToggleSelect(r) ==
    /\ pc[r] = "select"
    /\ call[r].op = "toggle_post_like"
    /\ LET found == SelectPost(call[r].updates) IN
       IF found = {}
       THEN Raise(r, "NotFoundError")
       ELSE \E post \in found :
              LET existing_like == SelectPostLike(post.id, call[r].user) IN
              /\ obj' = [obj EXCEPT ![r] =
                           {[post |-> post, existing_like |-> existing_like]}]
              /\ loaded' = [loaded EXCEPT ![r] = {post}]
              /\ pc' = [pc EXCEPT ![r] = "toggle"]
              /\ UNCHANGED <<outcome, response>>
    /\ UNCHANGED <<daily_summaries, analytics_events, user_progress, call, ops,
                   calcVars, socialVars>>

\* toggle_post_like: the delete or the add, the new likes_count, the commit
\* and the returned dict
ToggleCommit(r) ==
    /\ pc[r] = "toggle"
    /\ call[r].op = "toggle_post_like"
    /\ \E o \in obj[r] :
         LET likes_count ==
                 LikesCountAfter(o.post.likes_count, o.existing_like)
             new_like == PostLike(o.post.id, call[r].user, ops)
         IN  IF o.existing_like # {} /\ ~(o.existing_like \subseteq post_likes)
             THEN Raise(r, "StaleDataError") /\ UNCHANGED socialVars
             ELSE IF o.existing_like = {}
                     /\ PostLikeUnique(post_likes, new_like)
             THEN Raise(r, "UniqueViolation") /\ UNCHANGED socialVars
             ELSE /\ post_likes' =
                        IF o.existing_like # {}
                        THEN post_likes \ o.existing_like
                        ELSE post_likes \cup {new_like}
                  /\ posts' =
                        {IF p.id = o.post.id
                            /\ likes_count # o.post.likes_count
                         THEN [p EXCEPT !.likes_count = likes_count]
                         ELSE p : p \in posts}
                  /\ Return(r, [action |-> IF o.existing_like # {}
                                           THEN "unliked" ELSE "liked",
                                likes_count |-> likes_count])
                  /\ UNCHANGED <<obj, loaded>>
    /\ UNCHANGED <<daily_summaries, analytics_events, user_progress, call, ops,
                   calcVars>>

\* ------------------------------------------------------ score calculator harness
CalcBase == DailySummary(1, 1, 1)

NutritionSnapshots ==
    {[CalcBase EXCEPT
        !.calorie_goal_met = g[1], !.protein_goal_met = g[2],
        !.water_goal_met = g[3], !.meal_frequency_goal_met = g[4],
        !.meals_logged = m,
        !.total_protein_g = p, !.total_carbs_g = c, !.total_fat_g = f] :
     g \in [1..4 -> BOOLEAN], m \in 0..MaxMeals,
     p \in 0..MaxMacro, c \in 0..MaxMacro, f \in 0..MaxMacro}

SocialSnapshots ==
    {[CalcBase EXCEPT
        !.posts_created = p, !.likes_given = l, !.comments_made = c,
        !.meals_logged = m] :
     p \in -1..MaxPosts, l \in -1..MaxLikes, c \in -1..MaxComments,
     m \in {0, 2}}

OtherSnapshots ==
    {[CalcBase EXCEPT
        !.total_calories = k, !.total_fiber_g = k, !.water_glasses = w,
        !.app_sessions = a, !.total_app_time_minutes = a, !.photos_taken = w,
        !.posts_created = p, !.total_protein_g = k, !.meals_logged = m] :
     k \in 0..MaxMacro, w \in 0..MaxMacro, a \in 0..MaxMacro,
     p \in {0, MaxPosts}, m \in -1..MaxMeals}

CalcSnapshots == NutritionSnapshots \cup SocialSnapshots \cup OtherSnapshots

Scores(summary) ==
    [nutrition_score |-> calculate_nutrition_score(summary),
     consistency_score |-> calculate_consistency_score(summary),
     social_engagement_score |-> calculate_social_score(summary)]

\* the three calculators are applied to the snapshot
Calculate ==
    /\ calcOut = {}
    /\ calcOut' = {Scores(calcIn)}
    /\ UNCHANGED <<calcIn, calcPrev, dbVars>>

\* meals_logged changes, every other field fixed, and the scores are recalculated
Recalculate(m) ==
    /\ calcOut # {}
    /\ m # calcIn.meals_logged
    /\ calcPrev' = {[meals_logged |-> calcIn.meals_logged, scores |-> s] :
                    s \in calcOut}
    /\ calcIn' = [calcIn EXCEPT !.meals_logged = m]
    /\ calcOut' = {Scores(calcIn')}
    /\ UNCHANGED dbVars

\* ------------------------------------------------------------ specifications
DbInit ==
    /\ daily_summaries = {}
    /\ analytics_events = <<>>
    /\ posts = {}
    /\ post_likes = {}
    /\ user_progress = {}
    /\ pc = [r \in Req |-> "idle"]
    /\ call = [r \in Req |-> NoCall]
    /\ obj = [r \in Req |-> {}]
    /\ loaded = [r \in Req |-> {}]
    /\ outcome = [r \in Req |-> "none"]
    /\ response = [r \in Req |-> {}]
    /\ ops = 0

CalcIdle ==
    /\ calcIn = CalcBase
    /\ calcOut = {}
    /\ calcPrev = {}

\* Spec: requests served one at a time, each running to completion
Init == DbInit /\ CalcIdle

Next ==
    \/ \E op \in {"update", "get_or_create"}, u \in Users, d \in Dates,
          upd \in Updates :
          Start("a", op, u, d, IF op = "update" THEN upd ELSE <<>>)
    \/ \E u \in Users : Start("a", "get_user_progress", u, 0, <<>>)
    \/ Step("a")

Spec == Init /\ [][Next]_vars

\* SpecConc: two requests interleaved at every await
ConcUpdates == {OneMealUpdate, SocialUpdate}

NextConc ==
    \/ \E r \in Req, op \in {"update", "get_or_create"}, upd \in ConcUpdates :
          Start(r, op, 1, 1, IF op = "update" THEN upd ELSE <<>>)
    \/ \E r \in Req : Start(r, "get_user_progress", 1, 0, <<>>)
    \/ \E r \in Req : Step(r)

SpecConc == Init /\ [][NextConc]_vars

\* SpecCalc: the score calculators on bounded snapshots
InitCalc ==
    /\ DbInit
    /\ calcIn \in CalcSnapshots
    /\ calcOut = {}
    /\ calcPrev = {}

NextCalc ==
    \/ Calculate
    \/ \E m \in -1..MaxMeals : Recalculate(m)

SpecCalc == InitCalc /\ [][NextCalc]_vars

\* SpecUpd: two update_daily_summary requests interleaved on a row that
\* already exists (no request ever takes the insert path)
InitUpd ==
    /\ daily_summaries = {DailySummary(1, 1, 1)}
    /\ analytics_events = <<>>
    /\ posts = {}
    /\ post_likes = {}
    /\ user_progress = {}
    /\ pc = [r \in Req |-> "idle"]
    /\ call = [r \in Req |-> NoCall]
    /\ obj = [r \in Req |-> {}]
    /\ loaded = [r \in Req |-> {}]
    /\ outcome = [r \in Req |-> "none"]
    /\ response = [r \in Req |-> {}]
    /\ ops = 0
    /\ CalcIdle

NextUpd ==
    \/ \E r \in Req, upd \in ConcUpdates : Start(r, "update", 1, 1, upd)
    \/ \E r \in Req : GetOrCreateSelect(r)
    \/ \E r \in Req : UpdateApply(r)
    \/ \E r \in Req : UpdateCommit(r)
    \/ \E r \in Req : UpdateRefresh(r)
    \/ \E r \in Req : Finish(r)

SpecUpd == InitUpd /\ [][NextUpd]_vars

\* SpecRange: two requests interleaved on one (user, date), with payloads
\* that carry negative counters, counters beyond the caps and score columns
NextRange ==
    \/ \E r \in Req, upd \in RangeUpdates : Start(r, "update", 1, 1, upd)
    \/ \E r \in Req : GetOrCreateSelect(r)
    \/ \E r \in Req : GetOrCreateInsert(r)
    \/ \E r \in Req : GetOrCreateRefresh(r)
    \/ \E r \in Req : UpdateApply(r)
    \/ \E r \in Req : UpdateCommit(r)
    \/ \E r \in Req : UpdateRefresh(r)
    \/ \E r \in Req : Finish(r)

SpecRange == Init /\ [][NextRange]_vars

\* SpecWeek: get_weekly_summary on stores of rows that completed updates left
MaxWeekRows == 3

CalorieProteinDay ==
    [meals_logged |-> <<3>>, total_calories |-> <<2>>,
     total_protein_g |-> <<1>>, total_carbs_g |-> <<1>>, total_fat_g |-> <<1>>,
     calorie_goal_met |-> <<TRUE>>, protein_goal_met |-> <<TRUE>>]
CalorieWaterDay ==
    [meals_logged |-> <<1>>, total_calories |-> <<1>>, water_glasses |-> <<2>>,
     photos_taken |-> <<1>>, posts_created |-> <<1>>,
     calorie_goal_met |-> <<TRUE>>, water_goal_met |-> <<TRUE>>]
MealFrequencyDay ==
    [meals_logged |-> <<2>>, photos_taken |-> <<2>>, total_fat_g |-> <<1>>,
     water_glasses |-> <<1>>, meal_frequency_goal_met |-> <<TRUE>>]
\* the days of user 1; CalorieWaterDay is the day of user 2
WeekDayUpdates == {CalorieProteinDay, MealFrequencyDay}

\* the row update_daily_summary(user_id, summary_date, **updates) leaves when
\* it runs alone on a (user, date) without a row
StoredRow(id, user_id, summary_date, updates) ==
    RecalculateScores(ApplyUpdates(DailySummary(id, user_id, summary_date),
                                   updates))

\* the dates around the weeks asked for: a day before, a day after
WeekDates == 0..(WeekSpan + 2)
WeekStarts == {1, 2}

WeekPlans ==
    UNION {[D -> WeekDayUpdates] :
           D \in {E \in SUBSET WeekDates : Cardinality(E) <= MaxWeekRows}}

\* rows of user 1 on at most MaxWeekRows dates, with or without a row of user 2
WeekStores ==
    {{StoredRow(d + 1, 1, d, plan[d]) : d \in DOMAIN plan} \cup other :
     plan \in WeekPlans,
     other \in {{}, {StoredRow(WeekSpan + 4, 2, WeekSpan, CalorieWaterDay)}}}

InitWeek ==
    /\ daily_summaries \in WeekStores
    /\ analytics_events = <<>>
    /\ posts = {}
    /\ post_likes = {}
    /\ user_progress = {}
    /\ pc = [r \in Req |-> "idle"]
    /\ call = [r \in Req |-> NoCall]
    /\ obj = [r \in Req |-> {}]
    /\ loaded = [r \in Req |-> {}]
    /\ outcome = [r \in Req |-> "none"]
    /\ response = [r \in Req |-> {}]
    /\ ops = 0
    /\ CalcIdle

NextWeek ==
    \/ \E u \in Users, week_start \in WeekStarts :
          Start("a", "get_weekly_summary", u, week_start, <<>>)
    \/ GetWeeklySummary("a")
    \/ Finish("a")

SpecWeek == InitWeek /\ [][NextWeek]_vars

\* SpecInsight: generate_insights on stores of rows that completed updates left
MaxHistory == 16

\* date.today() at the request
InsightToday == InsightWindow + MaxHistory

ZeroMealsDay == [meals_logged |-> <<0>>, photos_taken |-> <<1>>]
TwoMealsDay == [meals_logged |-> <<2>>]
\* a day of the history: no row (<<>>) or the row of one update
DayKinds == {<<>>, <<ZeroMealsDay>>, <<OneMealUpdate>>, <<TwoMealsDay>>}

\* the last MaxHistory days in at most three runs of equal days
HistoryPlans ==
    {[i \in 0..(MaxHistory - 1) |->
         IF i < c1 THEN k1 ELSE IF i < c2 THEN k2 ELSE k3] :
     c1 \in 0..MaxHistory, c2 \in 0..MaxHistory,
     k1 \in DayKinds, k2 \in DayKinds, k3 \in DayKinds \ {<<TwoMealsDay>>}}

\* the row of user 1 each kind of day leaves, before its id and date are set
DayRow ==
    [k \in DayKinds \ {<<>>} |-> StoredRow(0, 1, 0, k[1])]

HistoryRows(plan) ==
    {[DayRow[plan[i]] EXCEPT !.id = i + 1, !.summary_date = InsightToday - i] :
     i \in {j \in DOMAIN plan : plan[j] # <<>>}}

\* rows outside the window: the day before its first day and the day after
\* today
EdgeRows ==
    {{},
     {StoredRow(InsightToday + 2, 1, InsightToday - InsightWindow - 1,
                OneMealUpdate),
      StoredRow(InsightToday + 3, 1, InsightToday + 1, TwoMealsDay)}}

\* a meal logged on each of the last n days, n up to past the window
LongStreaks ==
    {HistoryRows([i \in 0..(n - 1) |-> <<OneMealUpdate>>]) :
     n \in (InsightWindow + 1)..(InsightWindow + 2)}

InsightStores ==
    {HistoryRows(plan) \cup edge : plan \in HistoryPlans, edge \in EdgeRows}
    \cup LongStreaks

InitInsight ==
    /\ daily_summaries \in InsightStores
    /\ analytics_events = <<>>
    /\ posts = {}
    /\ post_likes = {}
    /\ user_progress = {}
    /\ pc = [r \in Req |-> "idle"]
    /\ call = [r \in Req |-> NoCall]
    /\ obj = [r \in Req |-> {}]
    /\ loaded = [r \in Req |-> {}]
    /\ outcome = [r \in Req |-> "none"]
    /\ response = [r \in Req |-> {}]
    /\ ops = 0
    /\ CalcIdle

NextInsight ==
    \/ Start("a", "generate_insights", 1, InsightToday, <<>>)
    \/ GenerateInsights("a")
    \/ Finish("a")

SpecInsight == InitInsight /\ [][NextInsight]_vars

\* SpecBatch: track_events_batch requests, one at a time
\* a batch of n events, each told apart by its position
Batch(n) ==
    [i \in 1..n |-> [event_type |-> "meal_logged", properties |-> i]]

BatchSizes == {0, 2, MaxBatch, MaxBatch + 1}

NextBatch ==
    \/ \E u \in Users, n \in BatchSizes :
          Start("a", "track_events_batch", u, 0, Batch(n))
    \/ TrackEventsBatch("a")
    \/ TrackEventsBatchReturn("a")
    \/ Finish("a")

SpecBatch == Init /\ [][NextBatch]_vars

\* SpecCore: every operation of the analytics core and the like toggle,
\* served one at a time
CoreUpdates == {OneMealUpdate, ExampleUpdate, GoalsUpdate}

\* one post that can be liked and one that was soft-deleted
CorePosts == {Post(1, 1), [Post(2, 1) EXCEPT !.deleted_at = <<1>>]}

\* date.today() at the requests: the last of the dates
CoreToday == NumDates

InitCore ==
    /\ daily_summaries = {}
    /\ analytics_events = <<>>
    /\ posts = CorePosts
    /\ post_likes = {}
    /\ user_progress = {}
    /\ pc = [r \in Req |-> "idle"]
    /\ call = [r \in Req |-> NoCall]
    /\ obj = [r \in Req |-> {}]
    /\ loaded = [r \in Req |-> {}]
    /\ outcome = [r \in Req |-> "none"]
    /\ response = [r \in Req |-> {}]
    /\ ops = 0
    /\ CalcIdle

NextCore ==
    \/ \E d \in Dates, upd \in CoreUpdates : Start("a", "update", 1, d, upd)
    \/ \E d \in Dates : Start("a", "get_or_create", 1, d, <<>>)
    \/ \E d \in Dates : Start("a", "get_daily_summary", 1, d, <<>>)
    \/ Start("a", "get_weekly_summary", 1, 1, <<>>)
    \/ Start("a", "generate_insights", 1, CoreToday, <<>>)
    \/ \E u \in Users : Start("a", "get_user_progress", u, 0, <<>>)
    \/ Start("a", "track_event", 1, 0, Batch(1)[1])
    \/ Start("a", "track_events_batch", 1, 0, Batch(2))
    \/ \E u \in Users, p \in {q.id : q \in CorePosts} :
          Start("a", "toggle_post_like", u, 0, p)
    \/ Step("a")
    \/ GetDailySummary("a")
    \/ GetWeeklySummary("a")
    \/ GenerateInsights("a")
    \/ TrackEvent("a")
    \/ TrackEventReturn("a")
    \/ TrackEventsBatch("a")
    \/ TrackEventsBatchReturn("a")
    \/ ToggleSelect("a")
    \/ ToggleCommit("a")

SpecCore == InitCore /\ [][NextCore]_vars

\* SpecHttp: the analytics endpoints that write or aggregate daily
\* summaries, two requests interleaved on one (user, date)
\* faulty variant: every query parameter is handed to the service
RouteUpdatesAllParams(query) == query

\* PUT /analytics/daily-summary: the route declares the 13 raw counters as
\* its parameters and builds `updates` from those that are not None; any
\* other query parameter is ignored
RouteUpdates(query) ==
    [f \in {g \in DOMAIN query \cap CounterFields : query[g] # <<>>} |->
        query[f]]

\* query strings: a full day with the four goal flags, the flags alone, and
\* counters alone
HttpQueries == {FullDayUpdate, GoalsUpdate, ExampleUpdate}

NextHttp ==
    \/ \E r \in Req, query \in HttpQueries :
          Start(r, "update", 1, 1, RouteUpdates(query))
    \/ \E r \in Req : Start(r, "get_weekly_summary", 1, 1, <<>>)
    \/ \E r \in Req : GetOrCreateSelect(r)
    \/ \E r \in Req : GetOrCreateInsert(r)
    \/ \E r \in Req : GetOrCreateRefresh(r)
    \/ \E r \in Req : UpdateApply(r)
    \/ \E r \in Req : UpdateCommit(r)
    \/ \E r \in Req : UpdateRefresh(r)
    \/ \E r \in Req : GetWeeklySummary(r)
    \/ \E r \in Req : Finish(r)

SpecHttp == Init /\ [][NextHttp]_vars

\* SpecSocial: toggle_post_like requests served one at a time, on three
\* posts that can be liked and one that was soft-deleted
SocialPosts ==
    {Post(1, 1), Post(2, 2), Post(3, 2),
     [Post(4, 1) EXCEPT !.deleted_at = <<1>>]}

InitSocial ==
    /\ daily_summaries = {}
    /\ analytics_events = <<>>
    /\ posts = SocialPosts
    /\ post_likes = {}
    /\ user_progress = {}
    /\ pc = [r \in Req |-> "idle"]
    /\ call = [r \in Req |-> NoCall]
    /\ obj = [r \in Req |-> {}]
    /\ loaded = [r \in Req |-> {}]
    /\ outcome = [r \in Req |-> "none"]
    /\ response = [r \in Req |-> {}]
    /\ ops = 0
    /\ CalcIdle

NextSocial ==
    \/ \E u \in Users, p \in {q.id : q \in SocialPosts} :
          Start("a", "toggle_post_like", u, 0, p)
    \/ ToggleSelect("a")
    \/ ToggleCommit("a")
    \/ Finish("a")

SpecSocial == InitSocial /\ [][NextSocial]_vars

\* ------------------------------------------------------------------ claims
Mean3(s) ==
    RatDivInt(RatAdd(RatAdd(s.nutrition_score, s.consistency_score),
                     s.social_engagement_score), 3)

\* C1: after any sequence of getOrCreate / update operations every stored
\* DailySummary row has overall_score = (nutrition_score + consistency_score
\* + social_engagement_score) / 3, and a row that was just inserted has all
\* four scores 0.
C1_OverallIsMean ==
    /\ \A s \in daily_summaries : s.overall_score = Mean3(s)
    /\ \A r \in Req :
         (pc[r] = "refresh_new" /\ IsSummaryOp(r)) =>
            \A o \in obj[r] : \A s \in daily_summaries :
               s.id = o.id => \A f \in ScoreFields : s[f] = RatInt(0)

\* an update has completed on a row whose overall score is a proper third
C1_Witness ==
    \E r \in Req :
        /\ pc[r] = "done" /\ call[r].op = "update"
        /\ \E s \in response[r] :
             /\ s \in daily_summaries
             /\ s.overall_score[2] = 3
             /\ s.nutrition_score = RatInt(40)

\* C2: at most one DailySummary row per (user, summary_date), in every
\* interleaving of concurrent first writers for the same key.
C2_OneRowPerUserDate ==
    \A s, t \in daily_summaries :
        (s.user_id = t.user_id /\ s.summary_date = t.summary_date) => s = t

\* both requests found no row and both inserted: the second insert was refused
C2_Witness ==
    \E r \in Req :
        /\ IsSummaryOp(r) /\ outcome[r] = "UniqueViolation"
        /\ SelectDailySummary(call[r].user, call[r].date) # {}

\* C3: the loser of a first-write race re-fetches the existing row, so no
\* unique-violation error is ever surfaced to a caller.
C3_NoConflictSurfaced ==
    \A r \in Req : outcome[r] # "UniqueViolation"

\* C4: the stored nutrition, consistency and social scores of every row are
\* the score calculators applied to the row's own stored counters and flags.
C4_ScoresMatchCounters ==
    \A s \in daily_summaries : \A f \in DOMAIN Scores(s) : s[f] = Scores(s)[f]

\* an update has completed and left non-zero nutrition and social scores
C4_Witness ==
    \E r \in Req :
        /\ pc[r] = "done" /\ call[r].op = "update"
        /\ \E s \in response[r] :
             /\ s \in daily_summaries
             /\ s.social_engagement_score = RatInt(45)
             /\ s.nutrition_score = RatInt(40)
             /\ s.meals_logged = 3

\* C5: a counter or goal flag of a stored row changes only in the commit of an
\* update of that row's (user, date) that provides a non-null value for it,
\* and then to the provided value; every other counter, flag and row stays.
C5_UpdateFrame ==
    [][\A row \in daily_summaries :
         \E new \in daily_summaries' :
            /\ new.id = row.id
            /\ new.user_id = row.user_id
            /\ new.summary_date = row.summary_date
            /\ \A f \in CounterFields \cup GoalFields :
                 new[f] # row[f] =>
                    \E r \in Req :
                       /\ call[r].op = "update" /\ pc[r] = "commit"
                       /\ call[r].user = row.user_id
                       /\ call[r].date = row.summary_date
                       /\ f \in DOMAIN call[r].updates
                       /\ call[r].updates[f] = <<new[f]>>]_vars

\* an update that sets the social counters and passes meals_logged = None
\* has completed on one row, next to a row of another user or date that
\* still holds the counters of its own earlier update
C5_Witness ==
    \E r \in Req :
        /\ pc[r] = "done" /\ call[r].updates = SocialUpdate
        /\ \E s \in response[r] :
             /\ s \in daily_summaries
             /\ s.meals_logged = 0 /\ s.posts_created = 2
             /\ \E t \in daily_summaries :
                  /\ <<t.user_id, t.summary_date>> # <<s.user_id, s.summary_date>>
                  /\ t.meals_logged = 3 /\ t.total_carbs_g = 20
                  /\ t.posts_created = 0

\* C6: concurrent updates of an existing row leave every committed row with
\* overall_score the mean of its stored scores and its stored scores matching
\* its stored counters.
C6_ConcurrentUpdatesKeepInvariants ==
    \A s \in daily_summaries :
        /\ s.overall_score = Mean3(s)
        /\ s.nutrition_score = calculate_nutrition_score(s)
        /\ s.consistency_score = calculate_consistency_score(s)
        /\ s.social_engagement_score = calculate_social_score(s)

GoalsMet(s) == Cardinality({f \in GoalFields : s[f]})
MacrosPositive(s) ==
    s.total_protein_g > 0 /\ s.total_carbs_g > 0 /\ s.total_fat_g > 0

\* C7: nutrition score = min(100, 60 * g/4 + v + m), g the number of goal
\* flags set, v = 20/15/10/0 for meals_logged >= 3 / = 2 / = 1 / = 0, m = 20
\* when all three macro totals are strictly positive; with meals_logged = 3
\* and all macros positive it is 60 * (g/4) + 40.
C7_NutritionFormula ==
    \A out \in calcOut :
        LET g == GoalsMet(calcIn)
            v == CASE calcIn.meals_logged >= 3 -> 20
                   [] calcIn.meals_logged = 2 -> 15
                   [] calcIn.meals_logged = 1 -> 10
                   [] OTHER -> 0
            m == IF MacrosPositive(calcIn) THEN 20 ELSE 0
        IN  /\ out.nutrition_score = RatMin(RatInt(100), Rat(60 * g + 4 * (v + m), 4))
            /\ (calcIn.meals_logged = 3 /\ MacrosPositive(calcIn)) =>
                  out.nutrition_score = Rat(60 * g + 160, 4)

\* three meals, all macros positive and two goals met score 70
C7_Witness ==
    /\ calcIn.meals_logged = 3 /\ MacrosPositive(calcIn) /\ GoalsMet(calcIn) = 2
    /\ \E out \in calcOut : out.nutrition_score = RatInt(70)

\* C8: with every other field fixed the nutrition score is non-decreasing in
\* meals_logged; it never exceeds 100 and is exactly 100 when all four goals
\* are met, meals_logged >= 3 and all three macros are positive.
C8_NutritionMonotone ==
    \A out \in calcOut :
        /\ RatLe(out.nutrition_score, RatInt(100))
        /\ (GoalsMet(calcIn) = 4 /\ calcIn.meals_logged >= 3
            /\ MacrosPositive(calcIn)) => out.nutrition_score = RatInt(100)
        /\ \A prev \in calcPrev :
             /\ prev.meals_logged <= calcIn.meals_logged =>
                   RatLe(prev.scores.nutrition_score, out.nutrition_score)
             /\ prev.meals_logged >= calcIn.meals_logged =>
                   RatLe(out.nutrition_score, prev.scores.nutrition_score)

\* meals_logged went from 2 to 3 and the score rose from 95 to the cap
C8_Witness ==
    \E out \in calcOut : \E prev \in calcPrev :
        /\ prev.meals_logged = 2 /\ calcIn.meals_logged = 3
        /\ prev.scores.nutrition_score = RatInt(95)
        /\ out.nutrition_score = RatInt(100)

\* C9: for non-negative counters the social score is
\* min(100, min(40, posts*20) + min(30, likes*5) + min(30, comments*10)),
\* each term 0 when its counter is 0.
C9_SocialFormula ==
    \A out \in calcOut :
        LET p == calcIn.posts_created
            l == calcIn.likes_given
            c == calcIn.comments_made
        IN  (p >= 0 /\ l >= 0 /\ c >= 0) =>
               /\ out.social_engagement_score =
                     RatInt(IntMin(100, IntMin(40, p * 20) + IntMin(30, l * 5)
                                        + IntMin(30, c * 10)))
               /\ (p = 0 /\ l = 0) =>
                     out.social_engagement_score = RatInt(IntMin(30, c * 10))
               /\ (p = 0 /\ c = 0) =>
                     out.social_engagement_score = RatInt(IntMin(30, l * 5))
               /\ (l = 0 /\ c = 0) =>
                     out.social_engagement_score = RatInt(IntMin(40, p * 20))

\* every term beyond its cap: 3 posts, 7 likes, 4 comments score 100
C9_Witness ==
    /\ calcIn.posts_created = 3 /\ calcIn.likes_given = 7
    /\ calcIn.comments_made = 4
    /\ \E out \in calcOut : out.social_engagement_score = RatInt(100)

\* C10: the consistency score is 100 / 70 / 40 / 0 for meals_logged >= 3 /
\* = 2 / = 1 / = 0, whatever the other fields of the snapshot are.
C10_ConsistencyFormula ==
    \A out \in calcOut :
        /\ calcIn.meals_logged >= 3 => out.consistency_score = RatInt(100)
        /\ calcIn.meals_logged = 2 => out.consistency_score = RatInt(70)
        /\ calcIn.meals_logged = 1 => out.consistency_score = RatInt(40)
        /\ calcIn.meals_logged = 0 => out.consistency_score = RatInt(0)

\* two meals score 70 on a snapshot whose social counters are at their caps
C10_Witness ==
    /\ calcIn.meals_logged = 2 /\ calcIn.posts_created = MaxPosts
    /\ calcIn.likes_given = MaxLikes
    /\ \E out \in calcOut : out.consistency_score = RatInt(70)

InRange(x) == RatLe(RatInt(0), x) /\ RatLe(x, RatInt(100))

\* C11: the four scores of every stored DailySummary row lie in [0, 100],
\* whatever counter (or score) values the updates supplied and however the
\* requests interleave.
C11_ScoresInRange ==
    \A s \in daily_summaries : \A f \in ScoreFields : InRange(s[f])

\* an update that supplied out-of-range score columns has completed on a row
\* whose social counters are all negative
C11_Witness ==
    \E r \in Req :
        /\ pc[r] = "done" /\ call[r].updates = OutOfRangeScoreUpdate
        /\ \E s \in response[r] :
             /\ s \in daily_summaries
             /\ s.likes_given = -2 /\ s.posts_created = -1

IsWeekly(r) == pc[r] = "done" /\ call[r].op = "get_weekly_summary"

\* the rows the week of request r covers, read off the table
RowsOfWeek(r) ==
    {s \in daily_summaries :
        /\ s.user_id = call[r].user
        /\ call[r].date <= s.summary_date
        /\ s.summary_date <= call[r].date + 6}

WeekNumbers ==
    {"total_meals_logged", "total_water_glasses", "total_photos_taken"}
WeekRationals ==
    {"avg_daily_calories", "avg_daily_protein_g", "avg_daily_carbs_g",
     "avg_daily_fat_g", "calorie_goal_achievement_rate",
     "protein_goal_achievement_rate", "water_goal_achievement_rate",
     "meal_frequency_goal_achievement_rate", "avg_nutrition_score",
     "avg_consistency_score", "avg_social_engagement_score",
     "avg_overall_score"}

\* C12: get_weekly_summary for a week without rows returns zero totals,
\* averages, rates and average scores and an empty per-day list; no weekly
\* request ever fails with a division by zero.
C12_EmptyWeekIsZero ==
    \A r \in Req :
        /\ call[r].op = "get_weekly_summary" => outcome[r] # "ZeroDivisionError"
        /\ (call[r].op = "get_weekly_summary" /\ pc[r] \in {"done", "failed"}
            /\ RowsOfWeek(r) = {}) =>
              /\ outcome[r] = "ok"
              /\ \A w \in response[r] :
                    /\ \A f \in WeekNumbers : w[f] = 0
                    /\ \A f \in WeekRationals : w[f] = RatInt(0)
                    /\ w.daily_summaries = <<>>

\* a weekly request has completed for a week without rows while the user
\* has rows outside that week
C12_Witness ==
    \E r \in Req :
        /\ IsWeekly(r) /\ RowsOfWeek(r) = {} /\ response[r] # {}
        /\ \E s \in daily_summaries : s.user_id = call[r].user

\* the number of rows of request r's week whose flag is set
MetInWeek(r, flag) == Cardinality({s \in RowsOfWeek(r) : s[flag]})

\* C13: each goal-achievement rate of get_weekly_summary is (rows of the week
\* with the flag set / rows present in the week) * 100: the divisor is the
\* number of days that have a row, not 7.
C13_RateOverDaysPresent ==
    \A r \in Req :
        (IsWeekly(r) /\ RowsOfWeek(r) # {}) =>
            \A w \in response[r] :
                LET n == Cardinality(RowsOfWeek(r)) IN
                /\ w.calorie_goal_achievement_rate
                      = Rat(100 * MetInWeek(r, "calorie_goal_met"), n)
                /\ w.protein_goal_achievement_rate
                      = Rat(100 * MetInWeek(r, "protein_goal_met"), n)
                /\ w.water_goal_achievement_rate
                      = Rat(100 * MetInWeek(r, "water_goal_met"), n)
                /\ w.meal_frequency_goal_achievement_rate
                      = Rat(100 * MetInWeek(r, "meal_frequency_goal_met"), n)

\* a week with 3 rows of which 2 met the calorie goal: the rate is 200/3
C13_Witness ==
    \E r \in Req :
        /\ IsWeekly(r)
        /\ Cardinality(RowsOfWeek(r)) = 3
        /\ MetInWeek(r, "calorie_goal_met") = 2
        /\ \E w \in response[r] :
              /\ w.calorie_goal_achievement_rate = <<200, 3>>
              /\ w.meal_frequency_goal_achievement_rate = <<100, 3>>

\* the sum of a counter / of a score over a set of rows
RECURSIVE TotalOf(_, _)
TotalOf(rows, field) ==
    IF rows = {} THEN 0
    ELSE LET s == CHOOSE t \in rows : TRUE
         IN  s[field] + TotalOf(rows \ {s}, field)

RECURSIVE ScoreTotalOf(_, _)
ScoreTotalOf(rows, field) ==
    IF rows = {} THEN RatInt(0)
    ELSE LET s == CHOOSE t \in rows : TRUE
         IN  RatAdd(s[field], ScoreTotalOf(rows \ {s}, field))

\* C14: get_weekly_summary(user, week_start) aggregates exactly the rows of
\* that user dated week_start .. week_start+6: the per-day list holds them in
\* ascending date order, the totals are their sums, and the averages are
\* their sums divided by their number.
C14_WeekAggregate ==
    \A r \in Req :
        IsWeekly(r) =>
            \A w \in response[r] :
                LET rows == RowsOfWeek(r)
                    n == Cardinality(rows)
                    list == w.daily_summaries
                IN  /\ {list[i] : i \in DOMAIN list} = rows
                    /\ Len(list) = n
                    /\ \A i \in 1..(Len(list) - 1) :
                          list[i].summary_date < list[i + 1].summary_date
                    /\ w.week_start_date = call[r].date
                    /\ w.week_end_date = call[r].date + 6
                    /\ n > 0 =>
                          /\ w.total_meals_logged = TotalOf(rows, "meals_logged")
                          /\ w.total_water_glasses = TotalOf(rows, "water_glasses")
                          /\ w.total_photos_taken = TotalOf(rows, "photos_taken")
                          /\ w.avg_daily_calories
                                = Rat(TotalOf(rows, "total_calories"), n)
                          /\ w.avg_daily_protein_g
                                = Rat(TotalOf(rows, "total_protein_g"), n)
                          /\ w.avg_daily_carbs_g
                                = Rat(TotalOf(rows, "total_carbs_g"), n)
                          /\ w.avg_daily_fat_g
                                = Rat(TotalOf(rows, "total_fat_g"), n)
                          /\ w.avg_nutrition_score
                                = RatDivInt(ScoreTotalOf(rows, "nutrition_score"), n)
                          /\ w.avg_consistency_score
                                = RatDivInt(ScoreTotalOf(rows, "consistency_score"), n)
                          /\ w.avg_social_engagement_score
                                = RatDivInt(ScoreTotalOf(rows,
                                                "social_engagement_score"), n)
                          /\ w.avg_overall_score
                                = RatDivInt(ScoreTotalOf(rows, "overall_score"), n)

\* a week that holds rows on its first and on its last day, while the user
\* has a row the day before it and another user has a row inside it
C14_Witness ==
    \E r \in Req :
        /\ IsWeekly(r)
        /\ \E w \in response[r] :
              /\ Len(w.daily_summaries) = 2
              /\ w.daily_summaries[1].summary_date = call[r].date
              /\ w.daily_summaries[2].summary_date = call[r].date + 6
              /\ w.total_meals_logged = 5
        /\ \E s \in daily_summaries :
              s.user_id = call[r].user /\ s.summary_date = call[r].date - 1
        /\ \E s \in daily_summaries :
              s.user_id # call[r].user /\ s.summary_date >= call[r].date

IsInsights(r) == pc[r] = "done" /\ call[r].op = "generate_insights"

\* the user of request r logged a meal on the day `back` days before today
LoggedOn(r, back) ==
    \E s \in daily_summaries :
        /\ s.user_id = call[r].user
        /\ s.summary_date = call[r].date - back
        /\ s.meals_logged > 0

\* the largest k <= limit with a meal logged on each of today, today-1, ...,
\* today-(k-1)
StreakUpTo(r, limit) ==
    CHOOSE k \in 0..limit :
        /\ \A i \in 0..(k - 1) : LoggedOn(r, i)
        /\ k = limit \/ ~LoggedOn(r, k)

InsightsOfType(list, type) == {i \in DOMAIN list : list[i].insight_type = type}

\* C16: generate_insights emits exactly one streak insight, tagged "Amazing"
\* with streak_days = k, when the streak k >= 7; exactly one tagged "Great"
\* with streak_days = k when 3 <= k <= 6; and none when k <= 2 (k the run of
\* logged days ending today, within the window).
C16_StreakInsightByLength ==
    \A r \in Req :
        IsInsights(r) =>
            \A f \in response[r] :
                LET k == StreakUpTo(r, IntMin(31, Cardinality(daily_summaries)))
                    streaks == InsightsOfType(f.insights, "streak")
                IN  /\ k >= 7 =>
                          /\ Cardinality(streaks) = 1
                          /\ \A i \in streaks :
                                /\ f.insights[i].title.tag = "Amazing"
                                /\ f.insights[i].data.streak_days = k
                    /\ (3 <= k /\ k <= 6) =>
                          /\ Cardinality(streaks) = 1
                          /\ \A i \in streaks :
                                /\ f.insights[i].title.tag = "Great"
                                /\ f.insights[i].data.streak_days = k
                    /\ k <= 2 => streaks = {}

\* exactly 7 logged days ending today: one "Amazing" insight with streak_days 7
C16_Witness ==
    \E r \in Req :
        /\ IsInsights(r)
        /\ \A i \in 0..6 : LoggedOn(r, i)
        /\ ~LoggedOn(r, 7)
        /\ \E f \in response[r] :
              /\ Len(f.insights) >= 1
              /\ f.insights[1].insight_type = "streak"
              /\ f.insights[1].title.tag = "Amazing"
              /\ f.insights[1].data.streak_days = 7

\* the rows of request r's user in the window today-30 .. today, and those
\* among them with at least `from` and fewer than `to` later rows
WindowRows(r) ==
    {s \in daily_summaries :
        /\ s.user_id = call[r].user
        /\ call[r].date - 30 <= s.summary_date
        /\ s.summary_date <= call[r].date}

RankedRows(r, from, to) ==
    {s \in WindowRows(r) :
        LET later == Cardinality({t \in WindowRows(r) :
                                    t.summary_date > s.summary_date})
        IN  from <= later /\ later < to}

\* (mean nutrition_score of the most recent 7 rows) - (mean of the prior 7)
NutritionDelta(r) ==
    RatSub(RatDivInt(ScoreTotalOf(RankedRows(r, 0, 7), "nutrition_score"), 7),
           RatDivInt(ScoreTotalOf(RankedRows(r, 7, 14), "nutrition_score"), 7))

\* C17: generate_insights emits an improvement insight if and only if at
\* least 14 days of history exist and (mean nutrition_score of the most
\* recent 7) - (mean of the prior 7) >= 5.0; a delta of exactly 5.0 emits it
\* with improvement = 5.0.
C17_ImprovementIffDelta ==
    \A r \in Req :
        IsInsights(r) =>
            \A f \in response[r] :
                LET emitted == InsightsOfType(f.insights, "improvement")
                    due == /\ Cardinality(WindowRows(r)) >= 14
                           /\ RatLe(RatInt(5), NutritionDelta(r))
                IN  /\ emitted # {} <=> due
                    /\ (due /\ NutritionDelta(r) = RatInt(5)) =>
                          \A i \in emitted :
                              f.insights[i].data.improvement = FloatOfInt(5)

\* C18: the list generate_insights returns holds at most one streak insight
\* and at most one improvement insight, the streak insight before the
\* improvement insight, and is empty when the user has no row in the window.
C18_InsightListShape ==
    \A r \in Req :
        IsInsights(r) =>
            \A f \in response[r] :
                LET streaks == InsightsOfType(f.insights, "streak")
                    improvements == InsightsOfType(f.insights, "improvement")
                IN  /\ Cardinality(streaks) <= 1
                    /\ Cardinality(improvements) <= 1
                    /\ streaks \cup improvements = DOMAIN f.insights
                    /\ \A i \in streaks : \A j \in improvements : i < j
                    /\ WindowRows(r) = {} => f.insights = <<>>

\* both insights were returned: the streak insight first, then the improvement
C18_Witness ==
    \E r \in Req :
        /\ IsInsights(r)
        /\ \E f \in response[r] :
              /\ Len(f.insights) = 2
              /\ f.insights[1].insight_type = "streak"
              /\ f.insights[2].insight_type = "improvement"
              /\ f.insights[2].data.improvement = FloatOfInt(5)

\* C19: a batch of more than 100 events is rejected with BadRequestError and
\* the analytics_events table is unchanged; a batch of at most 100 events
\* persists one record per input event, in input order, after the records
\* already there; nothing else changes the table.
C19_BatchAllOrNothing ==
    [][/\ \A r \in Req :
            (call[r].op = "track_events_batch" /\ pc[r] = "select"
             /\ pc'[r] # "select") =>
               LET batch == call[r].updates
                   before == Len(analytics_events)
               IN  IF Len(batch) > 100
                   THEN /\ outcome'[r] = "BadRequestError"
                        /\ analytics_events' = analytics_events
                   ELSE /\ outcome'[r] # "BadRequestError"
                        /\ Len(analytics_events') = before + Len(batch)
                        /\ \A i \in 1..before :
                              analytics_events'[i] = analytics_events[i]
                        /\ \A i \in 1..Len(batch) :
                              LET e == analytics_events'[before + i] IN
                              /\ e.user_id = call[r].user
                              /\ e.event_type = batch[i].event_type
                              /\ e.properties = batch[i].properties
       /\ analytics_events' # analytics_events =>
             \E r \in Req :
                 call[r].op = "track_events_batch" /\ pc[r] = "select"]_vars

\* a batch of 101 events was rejected after a batch of 100 was persisted whole
C19_Witness ==
    \E r \in Req :
        /\ pc[r] = "failed" /\ outcome[r] = "BadRequestError"
        /\ Len(call[r].updates) = 101
        /\ Len(analytics_events) = 100
        /\ analytics_events[100].properties = 100

\* C20: update_daily_summary is one transactional unit of work: called for a
\* (user, date) without a row, it never commits the row in a state other
\* than the final one (the provided counters, the recomputed scores), so no
\* committed row of its key holds counters that differ from the provided
\* values while the request runs or after it failed.
C20_UpdateIsOneTransaction ==
    [][\A r \in Req :
         (call[r].op = "update"
          /\ SelectDailySummary(call[r].user, call[r].date) = {}) =>
            \A s \in daily_summaries' :
               (s.user_id = call[r].user /\ s.summary_date = call[r].date) =>
                  /\ \A f \in (CounterFields \cup GoalFields)
                                \cap DOMAIN call[r].updates :
                        call[r].updates[f] # <<>> =>
                            s[f] = call[r].updates[f][1]
                  /\ s.nutrition_score = calculate_nutrition_score(s)
                  /\ s.consistency_score = calculate_consistency_score(s)
                  /\ s.social_engagement_score = calculate_social_score(s)]_vars

\* the values of a row keyed by user_id with every streak and total at 0
\* and every optional field absent
ZeroProgress(user_id) ==
    [user_id |-> user_id,
     current_logging_streak |-> 0, longest_logging_streak |-> 0,
     current_goal_streak |-> 0, longest_goal_streak |-> 0,
     first_meal_logged_at |-> <<>>, first_goal_met_at |-> <<>>,
     first_social_post_at |-> <<>>, last_active_date |-> <<>>,
     total_meals_logged |-> 0, total_days_active |-> 0,
     total_photos_taken |-> 0, total_social_interactions |-> 0,
     avg_daily_calories |-> <<>>, avg_nutrition_score |-> <<0, 1>>,
     avg_consistency_score |-> <<0, 1>>]

ProgressOf(user_id) == {p \in user_progress : p.user_id = user_id}

IsProgress(r) == call[r].op = "get_user_progress"

\* C21: with the calls served one after the other, get_user_progress(user)
\* returns the user's row, inserting it keyed by the user id with every
\* streak and total at 0 when there is none; the table never holds two rows
\* of one user, a completed call leaves exactly one row of its user and
\* returns that row, and a call made when the row exists inserts nothing and
\* changes nothing, so it returns what the first call returned.
C21_ProgressGetOrCreate ==
    /\ [](/\ \A p \in user_progress : ProgressOf(p.user_id) = {p}
          /\ \A r \in Req :
               (IsProgress(r) /\ pc[r] = "done") =>
                   /\ ProgressOf(call[r].user) = {ZeroProgress(call[r].user)}
                   /\ response[r] = ProgressOf(call[r].user))
    /\ [][\A r \in Req :
            (IsProgress(r) /\ pc[r] = "select"
                /\ ProgressOf(call[r].user) # {}) =>
                    /\ user_progress' = user_progress
                    /\ (pc'[r] # pc[r] =>
                           /\ pc'[r] = "done"
                           /\ response'[r] = ProgressOf(call[r].user))]_vars

\* the second of two calls for one user has returned: nothing else ran
\* (every summary operation leaves a summary row) and one row exists
C21_Witness ==
    /\ ops = 2
    /\ daily_summaries = {}
    /\ IsProgress("a")
    /\ pc["a"] = "done"
    /\ user_progress = {ZeroProgress(call["a"].user)}
    /\ response["a"] = user_progress

\* the row of the same (id, user, date) as s, if the table still has one
SameRow(table, s) ==
    {x \in table : x.id = s.id /\ x.user_id = s.user_id
                   /\ x.summary_date = s.summary_date}

\* C22: the stores only grow. In every step of every core operation
\* (track_event, track_events_batch, get_or_create / update / get daily
\* summary, get_weekly_summary, get_user_progress, generate_insights) each
\* AnalyticsEvent already persisted is still there with the same field
\* values, and each DailySummary row already created is still there (same
\* id, user and date): no step deletes a summary or mutates an event.
C22_StoresOnlyGrow ==
    [][/\ Len(analytics_events') >= Len(analytics_events)
       /\ \A i \in DOMAIN analytics_events :
             analytics_events'[i] = analytics_events[i]
       /\ \A s \in daily_summaries : SameRow(daily_summaries', s) # {}]_vars

\* an event was tracked and a later update has created and changed a row
C22_Witness ==
    /\ Len(analytics_events) >= 1
    /\ ops = 2
    /\ pc["a"] = "done"
    /\ call["a"].op = "update"
    /\ \E s \in daily_summaries : s.meals_logged = 3

\* C23: after any sequence of core operations (daily summary updates, event
\* tracking, the reads, the like toggle) every UserProgress row holds its
\* defaults: all streak counters and lifetime totals 0, the first-achievement
\* timestamps and last_active_date absent; and no step changes or removes a
\* row that exists.
C23_ProgressStaysDefault ==
    /\ [](\A p \in user_progress : p = ZeroProgress(p.user_id))
    /\ [][\A p \in user_progress : p \in user_progress']_vars

\* a progress row exists and a later update has logged meals for its user
C23_Witness ==
    /\ ops = 2
    /\ pc["a"] = "done"
    /\ call["a"].op = "update"
    /\ ZeroProgress(call["a"].user) \in user_progress
    /\ \E s \in daily_summaries :
          s.user_id = call["a"].user /\ s.meals_logged = 3

\* C24: in every reachable state every raw counter of every DailySummary row
\* (meals_logged, total_calories, the protein / carbs / fat / fiber totals,
\* water_glasses, app_sessions, total_app_time_minutes, photos_taken,
\* posts_created, likes_given, comments_made) is non-negative: an update
\* that supplies a negative value never results in a persisted negative
\* counter.
C24_CountersNonNegative ==
    \A s \in daily_summaries : \A f \in CounterFields : s[f] >= 0

\* the rows generate_insights analyses for request r: its recent_summaries
AnalysedRows(r) ==
    OrderByDateDesc(SelectRecent(call[r].user, call[r].date - InsightWindow,
                                 call[r].date))

\* C25: generate_insights reads at most 30 days of DailySummary rows ending
\* today: the rows it analyses are at most 30, each dated within the 30
\* calendar days ending today (today-29 .. today), in strictly descending
\* date order; hence the reported streak_days never exceeds 30.
C25_AtMostThirtyDays ==
    \A r \in Req :
        IsInsights(r) =>
            LET recent_summaries == AnalysedRows(r) IN
            /\ Len(recent_summaries) <= 30
            /\ \A i \in DOMAIN recent_summaries :
                  /\ recent_summaries[i].summary_date > call[r].date - 30
                  /\ recent_summaries[i].summary_date <= call[r].date
            /\ \A i \in DOMAIN recent_summaries :
                  \A j \in DOMAIN recent_summaries :
                      i < j => recent_summaries[i].summary_date
                                   > recent_summaries[j].summary_date
            /\ \A f \in response[r] :
                  /\ f.consecutive_days <= 30
                  /\ \A i \in InsightsOfType(f.insights, "streak") :
                        f.insights[i].data.streak_days <= 30

ReadOps == {"get_daily_summary", "get_weekly_summary", "generate_insights"}

\* C26: get_daily_summary, get_weekly_summary and generate_insights leave
\* the persisted state unchanged: no step of one of them changes a table.
\* get_daily_summary for a (user, date) without a row returns absent and
\* creates no row; with a row it returns that row.
C26_ReadsLeaveStateUnchanged ==
    /\ [][\A r \in Req :
            (call[r].op \in ReadOps /\ pc[r] = "select") =>
                /\ daily_summaries' = daily_summaries
                /\ analytics_events' = analytics_events
                /\ user_progress' = user_progress
                /\ posts' = posts
                /\ post_likes' = post_likes]_vars
    /\ [](\A r \in Req :
            (call[r].op = "get_daily_summary" /\ pc[r] = "done") =>
                LET stored == {s \in daily_summaries :
                                  /\ s.user_id = call[r].user
                                  /\ s.summary_date = call[r].date}
                IN  IF stored = {}
                    THEN response[r] = {<<>>}
                    ELSE response[r] = {<<s>> : s \in stored})

\* get_daily_summary returned absent for a date without a row, while the
\* user has a row on another date, and no row was created
C26_Witness ==
    /\ call["a"].op = "get_daily_summary"
    /\ pc["a"] = "done"
    /\ response["a"] = {<<>>}
    /\ \E s \in daily_summaries :
          s.user_id = call["a"].user /\ s.summary_date # call["a"].date
    /\ \A s \in daily_summaries : s.summary_date # call["a"].date

\* the row stored for the (user, date) of request r
StoredFor(r) ==
    {s \in daily_summaries :
        s.user_id = call[r].user /\ s.summary_date = call[r].date}

\* the counters and flags the update of request r provides a value for
Provided(r) ==
    {f \in DOMAIN call[r].updates :
        f \in CounterFields \cup GoalFields /\ call[r].updates[f] # <<>>}

\* row s holds every value the update of request r provides
HoldsUpdate(r, s) == \A f \in Provided(r) : s[f] = call[r].updates[f][1]

\* C27: update_daily_summary is absolute and idempotent. When an update has
\* completed, the row holds exactly the provided values (so after two
\* updates of one field its value is that of the later update, not a sum),
\* and an update applied to a row that already holds its values, as after
\* the same update, changes no counter, flag or score of any row.
C27_UpdateIsIdempotent ==
    /\ [](\A r \in Req :
            (call[r].op = "update" /\ pc[r] = "done") =>
                /\ StoredFor(r) # {}
                /\ \A s \in StoredFor(r) : HoldsUpdate(r, s)
                /\ response[r] = StoredFor(r))
    /\ [][\A r \in Req :
            (call[r].op = "update" /\ pc[r] \notin {"idle", "select"}
                /\ \E s \in StoredFor(r) : HoldsUpdate(r, s)) =>
                    daily_summaries' = daily_summaries]_vars

\* the same update a second time: the row it loaded already held the 3
\* meals and the macros it provides, its commit is done, and the stored row
\* is the loaded one
C27_Witness ==
    /\ ops = 2
    /\ call["a"].op = "update"
    /\ call["a"].updates = ExampleUpdate
    /\ pc["a"] = "refresh"
    /\ \E base \in loaded["a"] :
          /\ HoldsUpdate("a", base)
          /\ base.meals_logged = 3
          /\ base.nutrition_score = RatInt(40)
          /\ StoredFor("a") = {base}

GoalRates ==
    {"calorie_goal_achievement_rate", "protein_goal_achievement_rate",
     "water_goal_achievement_rate", "meal_frequency_goal_achievement_rate"}

\* C28: through the HTTP surface (PUT /analytics/daily-summary is the only
\* caller of update_daily_summary and passes only the 13 raw counters) no
\* goal-met flag is ever set: in every reachable state the four flags of
\* every DailySummary row are false, every nutrition_score is at most 40,
\* and every goal-achievement rate get_weekly_summary returns is 0.
C28_NoGoalOverHttp ==
    /\ \A s \in daily_summaries :
          /\ \A g \in GoalFields : s[g] = FALSE
          /\ RatLe(s.nutrition_score, RatInt(40))
    /\ \A r \in Req :
          (call[r].op = "get_weekly_summary" /\ pc[r] = "done") =>
              \A f \in response[r] : \A g \in GoalRates : f[g] = RatInt(0)

\* a week with a row of the most meals and all macros (nutrition_score 40)
\* was aggregated: its rates are 0
C28_Witness ==
    \E r \in Req :
        /\ call[r].op = "get_weekly_summary"
        /\ pc[r] = "done"
        /\ \E f \in response[r] :
              /\ f.total_meals_logged = MaxMeals
              /\ f.avg_nutrition_score = RatInt(40)
              /\ Len(f.daily_summaries) = 1
              /\ f.calorie_goal_achievement_rate = RatInt(0)

\* the mean nutrition_score of the rows ranked from..to-1 by date, newest
\* first, as the float quotient of their sum by their number
RankedAvg(r, from, to) ==
    LET total == ScoreTotalOf(RankedRows(r, from, to), "nutrition_score")
    IN  FloatDivInt(total[1], total[2] * (to - from))

\* C29: the improvement comparison of generate_insights is by position, not
\* by calendar: `recent` is the 7 newest rows of the window and `previous`
\* the next 7, whatever their dates. It is made whenever the window holds at
\* least 14 rows, gaps or not, and does not depend on the streak: the
\* improvement insight is returned exactly when there are 14 rows and the
\* mean of the 7 newest minus the mean of the next 7 is at least 5, and it
\* carries these two means.
C29_ImprovementIsPositional ==
    \A r \in Req :
        IsInsights(r) =>
            \A f \in response[r] :
                LET emitted == InsightsOfType(f.insights, "improvement")
                    recent == RankedAvg(r, 0, 7)
                    previous == RankedAvg(r, 7, 14)
                    due == /\ Cardinality(WindowRows(r)) >= 14
                           /\ FloatGe(FloatSub(recent, previous),
                                      FloatOfInt(5))
                IN  /\ emitted # {} <=> due
                    /\ \A i \in emitted :
                          /\ Bits(f.insights[i].data.recent_score.bits)
                                = Bits(recent.bits)
                          /\ Bits(f.insights[i].data.previous_score.bits)
                                = Bits(previous.bits)

\* an improvement insight with a streak of 0: no row today, and the 14
\* newest rows reach back past the last 14 days
C29_Witness ==
    \E r \in Req :
        /\ IsInsights(r)
        /\ \E f \in response[r] :
              /\ f.consecutive_days = 0
              /\ InsightsOfType(f.insights, "improvement") # {}
              /\ InsightsOfType(f.insights, "streak") = {}
        /\ \A s \in WindowRows(r) : s.summary_date # call[r].date
        /\ \E s \in RankedRows(r, 7, 14) :
              s.summary_date < call[r].date - 13

LikesOf(post_id) == {l \in post_likes : l.post_id = post_id}

\* the (post, user) pairs that have a like
LikePairs(table) == {<<l.post_id, l.user_id>> : l \in table}

LikesCountOf(table, post_id) ==
    {p.likes_count : p \in {q \in table : q.id = post_id}}

\* C30: with toggle_post_like requests each run to completion on posts that
\* are not deleted, every post's likes_count is the number of its PostLike
\* rows and is never negative, and no (post, user) has two PostLike rows. A
\* completed toggle flips the caller's like on that post and nothing else,
\* and moves likes_count by one in the same direction, so two consecutive
\* toggles by one user on one post restore the like set and likes_count.
C30_LikeToggle ==
    /\ [](/\ \A p \in posts :
               /\ p.likes_count = Cardinality(LikesOf(p.id))
               /\ p.likes_count >= 0
          /\ \A l \in post_likes : \A m \in post_likes :
               (l.post_id = m.post_id /\ l.user_id = m.user_id) => l = m)
    /\ [][\A r \in Req :
            (call[r].op = "toggle_post_like" /\ pc[r] = "toggle"
                /\ pc'[r] = "done") =>
                LET pair == <<call[r].updates, call[r].user>>
                    liked == pair \in LikePairs(post_likes)
                IN  /\ pair \in LikePairs(post_likes') <=> ~liked
                    /\ LikePairs(post_likes') \ {pair}
                          = LikePairs(post_likes) \ {pair}
                    /\ LikesCountOf(posts', pair[1])
                          = {c + (IF liked THEN -1 ELSE 1) :
                                c \in LikesCountOf(posts, pair[1])}
                    /\ \A p \in posts : p.id # pair[1] => p \in posts']_vars

\* the second of two toggles has unliked: no like is left and every count is
\* back at 0, as before the first toggle
C30_Witness ==
    /\ ops = 2
    /\ call["a"].op = "toggle_post_like"
    /\ pc["a"] = "done"
    /\ \E f \in response["a"] : f.action = "unliked" /\ f.likes_count = 0
    /\ post_likes = {}
    /\ posts = SocialPosts

=============================================================================
